---- MODULE Spec2Model ----
(***************************************************************************)
(* Meridian backend: the risk engine (services/risk_engine.py), its        *)
(* currency normaliser (services/financial_normalization.py) and the two  *)
(* endpoints that serve and recompute the cached RiskModel rows (main.py). *)
(*                                                                         *)
(* Numbers.  Python floats are modelled by exact integers and rationals:   *)
(*   money          ten-thousandths of a USD million (round(x, 4))         *)
(*   probability    tenths of a percent            (round(x, 1))           *)
(*   confidence     hundredths                     (round(x, 2))           *)
(*   severity       hundredths, drug_revenue_share percent                 *)
(* A rational is a pair <<n, d>> with d > 0.                               *)
(* round() is applied to the exact value, ties to even; a double that      *)
(* lies within float error of a tie may round the other way in Python.     *)
(***************************************************************************)
EXTENDS Integers, Sequences, FiniteSets, TLC

VARIABLES
    events,       \* table events:             id -> Event row or NoEvent
    profiles,     \* table financial_profiles: rows in insertion order
    hist,         \* table historical_events:  rows in insertion order
    regs,         \* table regulatory_actions: the company of each row
    risk_models,  \* table risk_models:        set of RiskModel rows
    now,          \* datetime.utcnow(), counted in commits of the risk engine
    last,         \* the response of the request handled by the last step
    fresh,        \* signals whose row was computed from the tables as they are
    req,          \* the requests in flight (SpecConc): worker -> local state
    raw_sources   \* table raw_sources:       rows in insertion order

vars == <<events, profiles, hist, regs, risk_models, now, last, fresh, req, raw_sources>>

(***************************************************************************)
(* Bounds of the model.                                                    *)
(***************************************************************************)
MaxSignal == 1      \* event ids 1..MaxSignal
MaxHist == 2        \* rows of historical_events
MaxBatches == 1     \* batches of regulatory_actions rows
MaxTime == 2        \* commits of the risk engine

SignalIds == 1..MaxSignal

(***************************************************************************)
(* Column values.  Null is SQL NULL / Python None of a string column,      *)
(* NoNum that of a numeric column.                                         *)
(***************************************************************************)
Null == "<NULL>"
NoNum == 0 - 1
NoEvent == [company |-> "<no event>", drug_name |-> Null, event_type |-> Null,
            source |-> Null]

\* str.lower() / func.lower() on the strings of the model
Lower(s) ==
    CASE s = "Acme" -> "acme"
      [] s = "ACME" -> "acme"
      [] s = "Zed" -> "zed"
      [] s = "Risk" -> "risk"
      [] s = "RISK" -> "risk"
      [] s = "Operational" -> "operational"
      [] s = "India" -> "india"
      [] s = "INDIA" -> "india"
      [] s = "US" -> "us"
      [] s = "USD" -> "usd"
      [] s = "INR" -> "inr"
      [] s = "EUR" -> "eur"
      [] s = "Crores" -> "crores"
      [] s = "CRORES" -> "crores"
      [] s = "Millions" -> "millions"
      [] s = "MILLIONS" -> "millions"
      [] s = "Billions" -> "billions"
      [] s = "BILLIONS" -> "billions"
      [] s = "Thousands" -> "thousands"
      [] s = "THOUSANDS" -> "thousands"
      [] s = "Lakhs" -> "lakhs"
      [] OTHER -> s

\* a string taken as it is written
AsWritten(s) == s

\* str.upper() on the currency codes of the model
Upper(s) ==
    CASE s = "usd" -> "USD"
      [] s = "Usd" -> "USD"
      [] s = "inr" -> "INR"
      [] s = "Inr" -> "INR"
      [] s = "eur" -> "EUR"
      [] s = "Eur" -> "EUR"
      [] s = "gbp" -> "GBP"
      [] OTHER -> s

\* str.strip() on the strings of the model
Strip(s) ==
    CASE s = "  " -> ""
      [] s = " Acme " -> "Acme"
      [] OTHER -> s

\* Python's `x or ""` for a nullable string
OrEmpty(s) == IF s = Null THEN "" ELSE s

\* Python truthiness of a nullable string
Truthy(s) == s # Null /\ s # ""

(***************************************************************************)
(* Arithmetic.                                                             *)
(***************************************************************************)
Min(a, b) == IF a <= b THEN a ELSE b
Max(a, b) == IF a >= b THEN a ELSE b

RECURSIVE Gcd(_, _)
Gcd(a, b) == IF b = 0 THEN a ELSE Gcd(b, a % b)

\* a / b in lowest terms (a >= 0, b > 0)
Rat(a, b) == LET g == Gcd(a, b) IN IF a = 0 THEN <<0, 1>> ELSE <<a \div g, b \div g>>

\* x * y, cross-reduced before multiplying so that the products stay small
RatMul(x, y) ==
    LET a == Rat(x[1], y[2])
        b == Rat(y[1], x[2])
    IN  Rat(a[1] * b[1], a[2] * b[2])

\* Python round() of the non-negative rational n / d to an integer:
\* to nearest, ties to even
RoundHalfEven(n, d) ==
    LET q == n \div d
        r == n % d
    IN  IF 2 * r < d THEN q
        ELSE IF 2 * r > d THEN q + 1
        ELSE IF q % 2 = 0 THEN q ELSE q + 1

\* round(x, 4) of a rational amount of USD millions, in ten-thousandths
Round4(x) ==
    LET y == RatMul(x, <<10000, 1>>) IN RoundHalfEven(y[1], y[2])

(***************************************************************************)
(* services/financial_normalization.py                                     *)
(***************************************************************************)
\* os.getenv("INR_PER_USD", "83.0"): the default
INR_PER_USD == 83
\* (1e7 / INR_PER_USD) / 1e6 USD millions per crore, for the rate the module
\* was loaded with (a positive rational)
crore_to_usd_millions_at(inr_per_usd) ==
    RatMul(<<10, 1>>, Rat(inr_per_usd[2], inr_per_usd[1]))
CRORE_TO_USD_MILLIONS == crore_to_usd_millions_at(<<INR_PER_USD, 1>>)
\* os.getenv("EUR_TO_USD", "1.08")
EUR_TO_USD == Rat(108, 100)

\* to_usd_millions in a process loaded with the rate inr_per_usd
to_usd_millions_at(inr_per_usd, value, currency, unit_scale) ==
    IF value = NoNum \/ value <= 0 THEN <<0, 1>>
    ELSE
    LET cur == Upper(IF Truthy(currency) THEN currency ELSE "USD")
        scale == Lower(IF Truthy(unit_scale) THEN unit_scale ELSE "millions")
    IN  IF cur = "INR" /\ scale = "crores"
            THEN RatMul(<<value, 1>>, crore_to_usd_millions_at(inr_per_usd))
        ELSE IF cur = "USD" /\ scale = "billions" THEN <<value * 1000, 1>>
        ELSE IF cur = "USD" /\ scale = "millions" THEN <<value, 1>>
        ELSE IF cur = "USD" /\ scale = "thousands" THEN Rat(value, 1000)
        ELSE IF cur = "USD" /\ scale = "crores" THEN <<value, 1>>
        ELSE IF cur = "EUR" /\ scale = "billions" THEN RatMul(<<value * 1000, 1>>, EUR_TO_USD)
        ELSE IF cur = "EUR" /\ scale = "millions" THEN RatMul(<<value, 1>>, EUR_TO_USD)
        ELSE IF cur = "EUR" /\ scale = "thousands" THEN RatMul(Rat(value, 1000), EUR_TO_USD)
        ELSE <<value, 1>>

\* to_usd_millions with the default rate
to_usd_millions(value, currency, unit_scale) ==
    to_usd_millions_at(<<INR_PER_USD, 1>>, value, currency, unit_scale)

\* a conversion back that always takes the default rate
usd_millions_to_inr_crores_default(inr_per_usd, usd_m) ==
    IF usd_m[1] <= 0 THEN <<0, 1>>
    ELSE RatMul(usd_m, Rat(INR_PER_USD, 10))

\* usd_m * 1e6 * INR_PER_USD / 1e7, in a process loaded with the rate
\* inr_per_usd; usd_m is a rational
usd_millions_to_inr_crores_at(inr_per_usd, usd_m) ==
    IF usd_m[1] <= 0 THEN <<0, 1>>
    ELSE RatMul(usd_m, RatMul(inr_per_usd, <<1, 10>>))

\* usd_millions_to_inr_crores with the default rate
usd_millions_to_inr_crores(usd_m) ==
    usd_millions_to_inr_crores_at(<<INR_PER_USD, 1>>, usd_m)

(***************************************************************************)
(* Display strings.  An amount is a rational <<n, d>> of USD millions,     *)
(* NoAmount for None.  A string "$1.2B", "$2M", "$154K", "$0.00M" or "$0"  *)
(* is the record of its unit and of the digits printed: tenths of a        *)
(* billion, whole millions, whole thousands, hundredths of a million.      *)
(* f"{x:.0f}" and its like print the nearest value, a tie going to the     *)
(* even digit when the double is the tie exactly.                          *)
(***************************************************************************)
NoAmount == <<0 - 1, 1>>

\* round(n / d) for a rational n / d >= 0 scaled by k
Scaled(x, k) == LET y == RatMul(x, <<k, 1>>) IN RoundHalfEven(y[1], y[2])

format_loss_usd(loss_usd_m) ==
    IF loss_usd_m[1] < 0 THEN [unit |-> "$0", digits |-> 0]
    ELSE IF loss_usd_m[1] >= 1000 * loss_usd_m[2]
        THEN [unit |-> "B", digits |-> Scaled(RatMul(loss_usd_m, <<1, 1000>>), 10)]
    ELSE IF loss_usd_m[1] >= loss_usd_m[2]
        THEN [unit |-> "M", digits |-> Scaled(loss_usd_m, 1)]
    ELSE IF 1000 * loss_usd_m[1] >= loss_usd_m[2]
        THEN [unit |-> "K", digits |-> Scaled(loss_usd_m, 1000)]
    ELSE [unit |-> "M.2f", digits |-> Scaled(loss_usd_m, 100)]

\* the display of an amount: the USD string and the INR suffix, "" for none,
\* "Cr" with whole crores or "Cr.2f" with hundredths of a crore
UsdOnly(usd) == [usd |-> usd, inr |-> [unit |-> "", digits |-> 0]]

format_loss_with_inr(loss_usd_m) ==
    LET inr_cr == usd_millions_to_inr_crores(loss_usd_m)
    IN  IF 100 * inr_cr[1] >= inr_cr[2]
        THEN [usd |-> format_loss_usd(loss_usd_m),
              inr |-> IF inr_cr[1] >= inr_cr[2]
                      THEN [unit |-> "Cr", digits |-> Scaled(inr_cr, 1)]
                      ELSE [unit |-> "Cr.2f", digits |-> Scaled(inr_cr, 100)]]
        ELSE UsdOnly(format_loss_usd(loss_usd_m))

\* lines 495-496 of run_risk_engine: the display of a stored amount, which
\* is in ten-thousandths of a USD million
display_of(loss, show_inr) ==
    IF show_inr THEN format_loss_with_inr(Rat(loss, 10000))
    ELSE UsdOnly(format_loss_usd(Rat(loss, 10000)))

LARGE_PHARMA_THRESHOLD_USD_M == 1000
MIN_EXPECTED_LOSS_USD_M == 1

\* a validation that takes "large" as above the threshold
validate_large_pharma_loss_above(revenue_usd_m, loss_min_usd_m) ==
    IF revenue_usd_m > LARGE_PHARMA_THRESHOLD_USD_M * 10000
       /\ loss_min_usd_m >= 0
       /\ loss_min_usd_m < MIN_EXPECTED_LOSS_USD_M * 10000
    THEN <<FALSE, "Validation flag: Revenue is large pharma but estimated loss is below $1M.">>
    ELSE <<TRUE, "">>

\* (valid, message): (FALSE, the flag text) for a large company with a loss
\* below $1M, (TRUE, "") otherwise.  Both arguments are in ten-thousandths of
\* a USD million, NoNum for None.
validate_large_pharma_loss(revenue_usd_m, loss_min_usd_m) ==
    IF revenue_usd_m = NoNum \/ revenue_usd_m < 0 THEN <<TRUE, "">>
    ELSE IF loss_min_usd_m = NoNum \/ loss_min_usd_m < 0 THEN <<TRUE, "">>
    ELSE IF revenue_usd_m >= LARGE_PHARMA_THRESHOLD_USD_M * 10000
            /\ loss_min_usd_m < MIN_EXPECTED_LOSS_USD_M * 10000
        THEN <<FALSE, "Validation flag: Revenue is large pharma but estimated loss is below $1M.">>
    ELSE <<TRUE, "">>

(***************************************************************************)
(* services/demo_company.py: DEMO_MODE is read from the environment; unset *)
(* (the default) get_demo_company() returns None.                          *)
(***************************************************************************)
get_demo_company == Null

(***************************************************************************)
(* Queries.  db is the record of the five tables as one statement sees     *)
(* them.                                                                   *)
(***************************************************************************)
RECURSIVE SumSeq(_)
SumSeq(s) == IF s = <<>> THEN 0 ELSE Head(s) + SumSeq(Tail(s))

\* a query without a limit
Unlimited(s, n) == s

\* the first n rows of a result: .limit(n)
Limit(s, n) == SubSeq(s, 1, Min(Len(s), n))

\* HistoricalEvent rows with func.lower(company) == func.lower(c)
HistOfCompany(db, c) == SelectSeq(db.hist, LAMBDA h : Lower(h.company) = Lower(c))

\* HistoricalEvent rows with func.lower(event_type) == t
HistOfType(db, t) == SelectSeq(db.hist, LAMBDA h : Lower(h.event_type) = t)

\* FinancialProfile rows with func.lower(company) == func.lower(c)
ProfilesOf(db, c) == SelectSeq(db.profiles, LAMBDA p : Lower(p.company) = Lower(c))

\* count of Event rows of the company that come from a news source
MediaCount(db, c) ==
    Cardinality({i \in DOMAIN db.events :
                    /\ db.events[i] # NoEvent
                    /\ db.events[i].company # Null
                    /\ Lower(db.events[i].company) = Lower(c)
                    /\ db.events[i].source \in {"Serper", "News"}})

\* count of RegulatoryAction rows of the company
ActionCount(db, c) == Len(SelectSeq(db.regs, LAMBDA r : Lower(r) = Lower(c)))

(***************************************************************************)
(* services/risk_engine.py: the estimators                                 *)
(***************************************************************************)
Insufficient(msg) ==
    [status |-> "insufficient_data", message |-> msg]

\* _profile_to_dict on an ORM row: `getattr(profile, f, None) or profile.get(f)`
\* evaluates profile.get, which a FinancialProfile row does not have, as soon
\* as one column is None, 0 or "": AttributeError.
profile_to_dict_raises(p) ==
    \/ ~ Truthy(p.company)
    \/ p.annual_revenue = 0
    \/ p.drug_revenue_share = 0
    \/ ~ Truthy(p.currency)
    \/ ~ Truthy(p.unit_scale)
    \/ ~ Truthy(p.market)

impact_pct_of(similar, event_type) ==
    LET scored == SelectSeq(similar, LAMBDA h : h.severity_score # NoNum)
        scores == [i \in 1..Len(scored) |-> scored[i].severity_score]
    IN  IF Len(scored) = 0
        THEN (IF event_type = "risk" THEN Rat(8, 100) ELSE Rat(3, 100))
        ELSE RatMul(Rat(SumSeq(scores), 100 * Len(scored)), Rat(15, 100))

estimate_loss(signal_id, db) ==
    LET event == db.events[signal_id]
        company == Strip(OrEmpty(event.company))
        found == ProfilesOf(db, company)
        demo == get_demo_company
        event_type == Lower(event.event_type)
        by_company == HistOfCompany(db, company)
        similar == IF Len(by_company) > 0 THEN by_company
                   ELSE Limit(HistOfType(db, event_type), 10)
    IN  IF event = NoEvent THEN Insufficient("Event not found")
        ELSE IF company = "" THEN Insufficient("Company not identified for this signal")
        ELSE IF Len(found) = 0 /\ (demo = Null \/ Lower(Strip(demo)) # Lower(company))
            THEN Insufficient("No financial profile")
        ELSE IF Len(found) > 0 /\ profile_to_dict_raises(found[1])
            THEN [status |-> "fault", message |-> "AttributeError"]
        ELSE
        LET profile == IF Len(found) > 0 THEN found[1]
                       ELSE [company |-> demo, annual_revenue |-> 48000,
                             drug_revenue_share |-> 6, currency |-> "INR",
                             unit_scale |-> "crores", market |-> "India"]
            revenue == to_usd_millions(profile.annual_revenue, profile.currency,
                                       profile.unit_scale)
        IN  IF Len(similar) = 0
            THEN Insufficient("No historical events for impact estimation")
            ELSE [status |-> "ok", message |-> "",
                  revenue_usd_m |-> Round4(revenue),
                  impact_pct |-> impact_pct_of(similar, event_type),
                  currency |-> profile.currency,
                  unit_scale |-> profile.unit_scale,
                  market |-> profile.market,
                  original_revenue |-> profile.annual_revenue,
                  company |-> profile.company,
                  drug_revenue_share |-> profile.drug_revenue_share,
                  similar_count |-> Len(similar)]

\* an estimator that asks for history of the company
estimate_probability_needs_history(signal_id, db) ==
    LET company == Strip(OrEmpty(db.events[signal_id].company))
    IN  IF Len(HistOfCompany(db, company)) = 0
        THEN Insufficient("No historical events")
        ELSE [status |-> "ok", message |-> "", probability |-> 0,
              total_hist |-> Len(HistOfCompany(db, company)),
              action_count |-> ActionCount(db, company)]

\* round(risk_score * 100, 1) in tenths of a percent
estimate_probability(signal_id, db) ==
    LET event == db.events[signal_id]
        company == Strip(OrEmpty(event.company))
        mine == HistOfCompany(db, company)
        total_hist == Len(mine)
        adverse_count ==
            Len(SelectSeq(mine, LAMBDA h : Lower(h.event_type) \in {"adverse", "safety"}))
        media_count == MediaCount(db, company)
        inspection_count ==
            Len(SelectSeq(mine, LAMBDA h : Lower(h.event_type) = "inspection"))
        action_count == ActionCount(db, company)
        \* 1000 * (0.30 a/t + 0.20 min(m/10, 1) + 0.20 min(i/5, 1) + 0.30 min(r/8, 1))
        rest == 8 * 20 * Min(media_count, 10) + 8 * 40 * Min(inspection_count, 5)
                + 300 * Min(action_count, 8)
        score == IF total_hist > 0
                 THEN Rat(8 * 300 * adverse_count + total_hist * rest, 8 * total_hist)
                 ELSE Rat(rest, 8)
    IN  IF event = NoEvent THEN Insufficient("Event not found")
        ELSE IF company = "" THEN Insufficient("Company not identified")
        ELSE [status |-> "ok", message |-> "",
              probability |-> RoundHalfEven(score[1], score[2]),
              total_hist |-> total_hist, action_count |-> action_count]

\* floor and ceiling of the square root of v >= 0
RECURSIVE SqrtUp(_, _)
SqrtUp(v, k) == IF k * k >= v THEN k ELSE SqrtUp(v, k + 1)
CeilSqrt(v) == SqrtUp(v, 0)
\* a deviation of zero
NoSpread(v) == 0
FloorSqrt(v) == LET c == CeilSqrt(v) IN IF c * c = v THEN c ELSE c - 1

predict_days(signal_id, db) ==
    LET event == db.events[signal_id]
        company == Strip(OrEmpty(event.company))
        event_type == Lower(event.event_type)
        dated == [events |-> db.events, profiles |-> db.profiles, regs |-> db.regs,
                  hist |-> SelectSeq(db.hist, LAMBDA h : h.days_to_action # NoNum)]
        by_company == HistOfCompany(dated, company)
        similar == IF company # "" /\ Len(by_company) > 0 THEN by_company
                   ELSE Limit(HistOfType(dated, event_type), 20)
        n == Len(similar)
        days_list == [i \in 1..n |-> similar[i].days_to_action]
        s == SumSeq(days_list)
        \* n^2 * variance = n * sum(d^2) - (sum d)^2;  std = sqrt(v) / n
        v == n * SumSeq([i \in 1..n |-> days_list[i] * days_list[i]]) - s * s
    IN  IF event = NoEvent THEN Insufficient("Event not found")
        ELSE IF n = 0 THEN Insufficient("No historical timeline data")
        ELSE [status |-> "ok", message |-> "",
              \* max(int(avg - std), 1); int() truncates towards zero, so a
              \* negative avg - std gives a value <= 0 and the result 1
              expected_days_min |->
                  IF s >= CeilSqrt(v) THEN Max((s - CeilSqrt(v)) \div n, 1) ELSE 1,
              \* int(avg + std)
              expected_days_max |-> (s + FloorSqrt(v)) \div n,
              sample |-> n]

\* round(score, 2) in hundredths, and the band
compute_confidence(signal_id, db, financial_ok) ==
    LET event == db.events[signal_id]
        hist_count == Len(SelectSeq(db.hist,
                          LAMBDA h : Lower(h.company) = Lower(event.company)))
        score ==
            (IF Truthy(event.company) /\ Strip(event.company) # "" THEN 15 ELSE 0)
            + (IF Truthy(event.drug_name) /\ Strip(event.drug_name) # "" THEN 15 ELSE 0)
            + (IF financial_ok THEN 20 ELSE 0)
            + (IF ~ Truthy(event.company) THEN 0
               ELSE IF hist_count >= 10 THEN 30
               ELSE IF hist_count >= 5 THEN 20
               ELSE IF hist_count >= 1 THEN 10
               ELSE 0)
            + (IF event.source \in {"OpenFDA", "Serper", "CDSCO"} THEN 20
               ELSE IF Truthy(event.source) /\ Strip(event.source) # "" THEN 10
               ELSE 0)
    IN  IF event = NoEvent THEN [score |-> 0, band |-> "Low"]
        ELSE [score |-> score,
              band |-> IF score >= 70 THEN "High"
                       ELSE IF score >= 40 THEN "Medium" ELSE "Low"]

(***************************************************************************)
(* services/risk_engine.py: run_risk_engine up to the upsert               *)
(***************************************************************************)
NoValues ==
    [probability |-> NoNum, loss_min |-> NoNum, loss_max |-> NoNum,
     expected_days_min |-> NoNum, expected_days_max |-> NoNum,
     confidence_score |-> NoNum]

\* no calculation breakdown: a failed result or a legacy row
NoBreakdown == [base_loss |-> NoNum, final_min |-> NoNum, final_max |-> NoNum]

NoExplanation == [valid |-> FALSE, market |-> Null, calculation_breakdown |-> FALSE,
                  breakdown |-> NoBreakdown, basis |-> <<>>]

\* round(loss * pct / 100, 4) of a stored amount
ScenarioAmount(loss, pct) ==
    LET x == RatMul(<<loss, 1>>, Rat(pct, 100)) IN RoundHalfEven(x[1], x[2])

\* scenarios that all take the whole range
scenarios_flat(loss_min, loss_max) ==
    [scenario_a |-> [loss_min |-> loss_min, loss_max |-> loss_max],
     scenario_b |-> [loss_min |-> loss_min, loss_max |-> loss_max],
     scenario_c |-> [loss_min |-> loss_min, loss_max |-> loss_max]]

\* Scenarios: A 100 %, B 70 %, C 50 % of the loss range ("Do nothing", "Act
\* in 30 days", "Act in 14 days")
scenarios_of(loss_min, loss_max) ==
    [scenario_a |-> [loss_min |-> ScenarioAmount(loss_min, 100),
                     loss_max |-> ScenarioAmount(loss_max, 100)],
     scenario_b |-> [loss_min |-> ScenarioAmount(loss_min, 70),
                     loss_max |-> ScenarioAmount(loss_max, 70)],
     scenario_c |-> [loss_min |-> ScenarioAmount(loss_min, 50),
                     loss_max |-> ScenarioAmount(loss_max, 50)]]

\* the display of an amount stored by a version that wrote INR crores
legacy_display_of(loss) ==
    format_loss_with_inr(RatMul(to_usd_millions(loss, "INR", "crores"), <<1, 10000>>))

\* a scenario with its display strings
scenario_display(v, show_inr, legacy_cr) ==
    [loss_min |-> v.loss_min, loss_max |-> v.loss_max,
     display_min |-> IF legacy_cr THEN legacy_display_of(v.loss_min)
                     ELSE display_of(v.loss_min, show_inr),
     display_max |-> IF legacy_cr THEN legacy_display_of(v.loss_max)
                     ELSE display_of(v.loss_max, show_inr)]

scenario_displays_of(scenarios, show_inr, legacy_cr) ==
    [scenario_a |-> scenario_display(scenarios.scenario_a, show_inr, legacy_cr),
     scenario_b |-> scenario_display(scenarios.scenario_b, show_inr, legacy_cr),
     scenario_c |-> scenario_display(scenarios.scenario_c, show_inr, legacy_cr)]

\* the display keys of a result that has none
NoDisplay == UsdOnly([unit |-> "", digits |-> 0])
NoScenarios == scenarios_flat(NoNum, NoNum)
NoScenarioDisplays ==
    LET none == [loss_min |-> NoNum, loss_max |-> NoNum,
                 display_min |-> NoDisplay, display_max |-> NoDisplay]
    IN  [scenario_a |-> none, scenario_b |-> none, scenario_c |-> none]

Outcome(status, message) ==
    [status |-> status, message |-> message, values |-> NoValues,
     confidence_band |-> Null, validation_passed |-> "absent",
     validation_message |-> "absent",
     loss_display_min |-> NoDisplay, loss_display_max |-> NoDisplay,
     scenarios |-> NoScenarios, scenario_displays |-> NoScenarioDisplays,
     explanation |-> NoExplanation]

\* loss_base = revenue_usd_m * drug_share * impact_pct * probability / 100
loss_base_of(financial_result, risk_result) ==
    RatMul(RatMul(Rat(financial_result.revenue_usd_m, 10000),
                  Rat(financial_result.drug_revenue_share, 100)),
           RatMul(financial_result.impact_pct, Rat(risk_result.probability, 1000)))

\* round(loss_base * 0.8, 4)
loss_min_of(loss_base) == Round4(RatMul(loss_base, Rat(8, 10)))

\* a loss_max that takes the factor of loss_min
loss_max_low(loss_base) == Round4(RatMul(loss_base, Rat(8, 10)))

\* a loss_max that takes 0.2 for 1.2
loss_max_fifth(loss_base) == Round4(RatMul(loss_base, Rat(2, 10)))

\* round(loss_base * 1.2, 4)
loss_max_of(loss_base) == Round4(RatMul(loss_base, Rat(12, 10)))

\* json.dumps(explanation): what the methodology texts cite
\* f"{x:.2f}" of a non-negative rational amount, in hundredths
Format2(x) ==
    LET y == RatMul(x, <<100, 1>>) IN RoundHalfEven(y[1], y[2])

\* The numbers of the "formula" and "final_units" texts: the base loss
\* f"{revenue_usd_m * impact_percentage * risk_probability:.2f}" and the
\* final range f"{loss_min_usd_m:.2f}" to f"{loss_max_usd_m:.2f}", in hundredths
\* of a USD million.  revenue_usd_m and the losses are in ten-thousandths,
\* risk_probability is probability / 100 with the probability in tenths.
get_calculation_breakdown(revenue_usd_m, impact_percentage, risk_probability, loss_min_usd_m, loss_max_usd_m) ==
    [base_loss |-> Format2(RatMul(RatMul(Rat(revenue_usd_m, 10000), impact_percentage),
                                  Rat(risk_probability, 1000))),
     final_min |-> Format2(Rat(loss_min_usd_m, 10000)),
     final_max |-> Format2(Rat(loss_max_usd_m, 10000))]

build_explanation(financial_result, risk_result, timeline_result, confidence_result, loss_min, loss_max, market) ==
    [valid |-> TRUE, market |-> market, calculation_breakdown |-> TRUE,
     breakdown |-> get_calculation_breakdown(financial_result.revenue_usd_m,
                       financial_result.impact_pct, risk_result.probability,
                       loss_min, loss_max),
     basis |-> <<financial_result.revenue_usd_m, financial_result.drug_revenue_share,
                 financial_result.impact_pct, financial_result.similar_count,
                 risk_result.probability, risk_result.total_hist,
                 risk_result.action_count, timeline_result.sample,
                 timeline_result.expected_days_min, timeline_result.expected_days_max,
                 confidence_result.score, loss_min, loss_max>>]

\* a check of the three results that starts from the timeline
last_insufficient(financial_result, risk_result, timeline_result) ==
    IF timeline_result.status = "insufficient_data" THEN <<timeline_result>>
    ELSE IF risk_result.status = "insufficient_data" THEN <<risk_result>>
    ELSE IF financial_result.status = "insufficient_data" THEN <<financial_result>>
    ELSE <<>>

\* lines 407-412: the result run_risk_engine returns early, as a sequence of
\* one result, or <<>> when every estimator succeeded
first_insufficient(financial_result, risk_result, timeline_result) ==
    IF financial_result.status = "insufficient_data" THEN <<financial_result>>
    ELSE IF risk_result.status = "insufficient_data" THEN <<risk_result>>
    ELSE IF timeline_result.status = "insufficient_data" THEN <<timeline_result>>
    ELSE <<>>

\* lines 407-459 and 503-521: the three estimator results to the analysis
assemble(signal_id, db, financial_result, risk_result, timeline_result) ==
    IF first_insufficient(financial_result, risk_result, timeline_result) # <<>>
        THEN Outcome("insufficient_data",
                     first_insufficient(financial_result, risk_result,
                                        timeline_result)[1].message)
    ELSE
    LET loss_base == loss_base_of(financial_result, risk_result)
        loss_min_usd_m == loss_min_of(loss_base)
        loss_max_usd_m == loss_max_of(loss_base)
        validation ==
            validate_large_pharma_loss(financial_result.revenue_usd_m, loss_min_usd_m)
        validation_passed == validation[1]
        validation_message == validation[2]
        market == IF Truthy(financial_result.market) THEN financial_result.market ELSE "US"
        show_inr == Lower(market) = "india"
        scenarios == scenarios_of(loss_min_usd_m, loss_max_usd_m)
        confidence_result == compute_confidence(signal_id, db, TRUE)
    IN  [status |-> "ok", message |-> "",
         values |-> [probability |-> risk_result.probability,
                     loss_min |-> loss_min_usd_m,
                     loss_max |-> loss_max_usd_m,
                     expected_days_min |-> timeline_result.expected_days_min,
                     expected_days_max |-> timeline_result.expected_days_max,
                     confidence_score |-> confidence_result.score],
         confidence_band |-> confidence_result.band,
         validation_passed |-> IF validation_passed THEN "true" ELSE "false",
         validation_message |-> IF validation_message = "" THEN Null
                                ELSE validation_message,
         loss_display_min |-> display_of(loss_min_usd_m, show_inr),
         loss_display_max |-> display_of(loss_max_usd_m, show_inr),
         scenarios |-> scenarios,
         scenario_displays |-> scenario_displays_of(scenarios, show_inr, FALSE),
         explanation |-> build_explanation(financial_result, risk_result,
                             timeline_result, confidence_result,
                             loss_min_usd_m, loss_max_usd_m, market)]

\* run_risk_engine when every statement sees the same tables
run_risk_engine(signal_id, db) ==
    LET event == db.events[signal_id]
        company == Strip(OrEmpty(event.company))
        financial_result == estimate_loss(signal_id, db)
    IN  IF event = NoEvent THEN Outcome("error", "Signal not found")
        ELSE IF company = ""
            THEN Outcome("insufficient_data",
                         "Company or drug not identified for this signal.")
        ELSE IF financial_result.status = "fault"
            THEN Outcome("fault", financial_result.message)
        ELSE assemble(signal_id, db, financial_result,
                      estimate_probability(signal_id, db),
                      predict_days(signal_id, db))

(***************************************************************************)
(* The risk_models table                                                   *)
(***************************************************************************)
RowsOf(rows, signal_id) == {r \in rows : r.signal_id = signal_id}

\* .first(): the row with the smallest id
FirstRow(rows) == CHOOSE r \in rows : \A q \in rows : r.id <= q.id

\* the integer primary key SQLite gives a new row: max(id) + 1
NextId(ids) == IF ids = {} THEN 1 ELSE (CHOOSE m \in ids : \A i \in ids : i <= m) + 1

\* RiskModel(signal_id=..., ...); db.add(risk_model)
NewRow(rows, signal_id, out, t) ==
    [id |-> NextId({r.id : r \in rows}), signal_id |-> signal_id,
     probability |-> out.values.probability,
     loss_min |-> out.values.loss_min,
     loss_max |-> out.values.loss_max,
     expected_days_min |-> out.values.expected_days_min,
     expected_days_max |-> out.values.expected_days_max,
     confidence_score |-> out.values.confidence_score,
     explanation |-> out.explanation,
     updated_at |-> t]

\* an update that writes updated_at only
UpdatedRowStamp(row, out, t) == [row EXCEPT !.updated_at = t]

\* risk_model.probability = ...; ...; risk_model.updated_at = datetime.utcnow()
UpdatedRow(row, out, t) ==
    [row EXCEPT !.probability = out.values.probability,
                !.loss_min = out.values.loss_min,
                !.loss_max = out.values.loss_max,
                !.expected_days_min = out.values.expected_days_min,
                !.expected_days_max = out.values.expected_days_max,
                !.confidence_score = out.values.confidence_score,
                !.explanation = out.explanation,
                !.updated_at = t]

\* a persist step that always inserts
InsertOnly(rows, signal_id, out, t) ==
    rows \cup {NewRow(rows, signal_id, out, t)}

\* lines 461-484 when nothing runs between the lookup and the commit
Upsert(rows, signal_id, out, t) ==
    IF RowsOf(rows, signal_id) # {}
    THEN LET row == FirstRow(RowsOf(rows, signal_id))
         IN  (rows \ {row}) \cup {UpdatedRow(row, out, t)}
    ELSE rows \cup {NewRow(rows, signal_id, out, t)}

ValuesOfRow(row) ==
    [probability |-> row.probability, loss_min |-> row.loss_min,
     loss_max |-> row.loss_max, expected_days_min |-> row.expected_days_min,
     expected_days_max |-> row.expected_days_max,
     confidence_score |-> row.confidence_score]

(***************************************************************************)
(* Responses                                                               *)
(***************************************************************************)
NoRow ==
    [id |-> 0, signal_id |-> 0, probability |-> NoNum, loss_min |-> NoNum,
     loss_max |-> NoNum, expected_days_min |-> NoNum, expected_days_max |-> NoNum,
     confidence_score |-> NoNum, explanation |-> NoExplanation, updated_at |-> 0]

\* the row of the signal, or NoRow
RowOf(rows, signal_id) ==
    IF RowsOf(rows, signal_id) = {} THEN NoRow ELSE FirstRow(RowsOf(rows, signal_id))

\* What a request returned.  before and was_fresh record the state the request
\* started from: the signal's row, and whether that row had been computed from
\* the tables as they were.
Response(op, signal_id, out, cached, before, was_fresh) ==
    [op |-> op, signal_id |-> signal_id, status |-> out.status,
     message |-> out.message, values |-> out.values,
     confidence_band |-> out.confidence_band,
     validation_passed |-> out.validation_passed,
     loss_display_min |-> out.loss_display_min,
     loss_display_max |-> out.loss_display_max,
     scenario_displays |-> out.scenario_displays, cached |-> cached,
     before |-> before, was_fresh |-> was_fresh]

NoCall == Response("none", 0, Outcome("none", ""), FALSE, NoRow, FALSE)

\* a cache read that treats every stored loss as INR crores
CachedOutcomeLegacy(row) ==
    [status |-> "ok", message |-> "",
     values |-> LET lm == to_usd_millions(row.loss_min, "INR", "crores")
                    lx == to_usd_millions(row.loss_max, "INR", "crores")
                IN  [ValuesOfRow(row) EXCEPT !.loss_min = RoundHalfEven(lm[1], lm[2]),
                                             !.loss_max = RoundHalfEven(lx[1], lx[2])],
     confidence_band |-> "Low", validation_passed |-> "absent",
     validation_message |-> "absent",
     loss_display_min |-> legacy_display_of(row.loss_min),
     loss_display_max |-> legacy_display_of(row.loss_max),
     scenarios |-> scenarios_of(row.loss_min, row.loss_max),
     scenario_displays |->
         scenario_displays_of(scenarios_of(row.loss_min, row.loss_max), TRUE, TRUE),
     explanation |-> NoExplanation]

\* main.py 580-631: the response built from a cached row.  methodology is
\* the parsed explanation_json, {} when it does not parse; a loss below
\* 10000 in a row without calculation_breakdown whose market is India (the
\* default) is taken as INR crores.
CachedOutcome(row) ==
    LET methodology == IF row.explanation.valid THEN row.explanation ELSE NoExplanation
        market == Lower(IF Truthy(methodology.market) THEN methodology.market
                        ELSE "India")
        show_inr == market = "india"
        legacy_cr == /\ ~ methodology.calculation_breakdown
                     /\ market = "india"
                     /\ row.loss_min < 10000 * 10000
        scenarios == scenarios_of(row.loss_min, row.loss_max)
    IN  [status |-> "ok", message |-> "", values |-> ValuesOfRow(row),
         confidence_band |-> IF row.confidence_score >= 70 THEN "High"
                             ELSE IF row.confidence_score >= 40 THEN "Medium" ELSE "Low",
         validation_passed |-> "absent",
         validation_message |-> "absent",
         loss_display_min |-> IF legacy_cr THEN legacy_display_of(row.loss_min)
                              ELSE display_of(row.loss_min, show_inr),
         loss_display_max |-> IF legacy_cr THEN legacy_display_of(row.loss_max)
                              ELSE display_of(row.loss_max, show_inr),
         scenarios |-> scenarios,
         scenario_displays |-> scenario_displays_of(scenarios, show_inr, legacy_cr),
         explanation |-> methodology]

(***************************************************************************)
(* The rows the environment stores.  The corpus tables are filled by the   *)
(* seed scripts and the events table by /process and the seed scripts;     *)
(* the model stores the rows below.                                        *)
(***************************************************************************)
\* an Event as /process stores it: company and drug_name are not set
ProcessedEvent ==
    [company |-> Null, drug_name |-> Null, event_type |-> "Risk", source |-> "Serper"]

\* Events as the seed scripts store them
SeededEvents ==
    {[company |-> "ACME", drug_name |-> "Metformin", event_type |-> "Risk",
      source |-> "OpenFDA"],
     [company |-> "  ", drug_name |-> Null, event_type |-> "Operational",
      source |-> "Demo"]}

\* FinancialProfile rows: a complete one, and one written before the columns
\* currency, unit_scale and market existed (seed/sun_pharma_case.py backfills
\* such rows)
SeededProfiles ==
    {[company |-> "Acme", annual_revenue |-> 1000, drug_revenue_share |-> 6,
      currency |-> "USD", unit_scale |-> "millions", market |-> "US"],
     [company |-> "Acme", annual_revenue |-> 1000, drug_revenue_share |-> 6,
      currency |-> Null, unit_scale |-> Null, market |-> Null]}

SeededHistory ==
    {[company |-> "Acme", event_type |-> "adverse", severity_score |-> 33,
      outcome |-> "none", days_to_action |-> NoNum],
     [company |-> "acme", event_type |-> "inspection", severity_score |-> NoNum,
      outcome |-> "warning_letter", days_to_action |-> 120],
     [company |-> "Zed", event_type |-> "Risk", severity_score |-> NoNum,
      outcome |-> "none", days_to_action |-> 60]}

INVALID_SOURCES ==
    {"Simulation", "Demo", "Not enough verified data yet",
     "Not enough verified data yet.", "Insufficient data", "Unverified",
     "Pending verification", "Unknown source", "Unknown", "External"}

DB == [events |-> events, profiles |-> profiles, hist |-> hist, regs |-> regs]

EventIds == {i \in DOMAIN events : events[i] # NoEvent}

\* the requests in progress: each is handled by its own thread with its own
\* Session (database.py get_db)
Workers == {"A", "B"}

NoResult == [status |-> "none"]

\* loaded_id: the id of the RiskModel the Session loaded (0: none);
\* dirty: the columns of it that the Session has to write
IdleRequest ==
    [pc |-> "idle", op |-> "none", signal_id |-> 0,
     financial_result |-> NoResult, risk_result |-> NoResult,
     timeline_result |-> NoResult, out |-> Outcome("none", ""),
     loaded_id |-> NoNum, dirty |-> {}, status |-> "none", committed |-> FALSE]

Idle == [w \in Workers |-> IdleRequest]

Init ==
    /\ events = [i \in SignalIds |-> NoEvent]
    /\ profiles = <<>>
    /\ hist = <<>>
    /\ regs = <<>>
    /\ risk_models = {}
    /\ now = 0
    /\ last = NoCall
    /\ fresh = {}
    /\ req = Idle
    /\ raw_sources = <<>>

(***************************************************************************)
(* Operations that change the tables the risk engine reads                 *)
(***************************************************************************)
StoreEvent(e) ==
    LET id == NextId(EventIds)
    IN  /\ id \in SignalIds
        /\ events' = [events EXCEPT ![id] = e]
        /\ fresh' = {}
        /\ last' = NoCall
        /\ UNCHANGED <<raw_sources, profiles, hist, regs, risk_models, now, req>>

\* main.py /process: an Event for an unprocessed RawSource
process_data == StoreEvent(ProcessedEvent)

\* seed/sun_pharma_case.py _seed_events
seed_events == \E e \in SeededEvents : StoreEvent(e)

\* seed_historical_data.py seed_financial_profiles: insert unless the company
\* has a row
seed_financial_profiles ==
    \E p \in SeededProfiles :
        /\ \A i \in 1..Len(profiles) : profiles[i].company # p.company
        /\ profiles' = Append(profiles, p)
        /\ fresh' = {}
        /\ last' = NoCall
        /\ UNCHANGED <<raw_sources, events, hist, regs, risk_models, now, req>>

\* seed_historical_data.py seed_historical_events
seed_historical_events ==
    \E h \in SeededHistory :
        /\ Len(hist) < MaxHist
        /\ hist' = Append(hist, h)
        /\ fresh' = {}
        /\ last' = NoCall
        /\ UNCHANGED <<raw_sources, events, profiles, regs, risk_models, now, req>>

\* seed/sun_pharma_case.py _seed_regulatory_actions: one RegulatoryAction for
\* every HistoricalEvent with an outcome
seed_regulatory_actions ==
    LET acted == SelectSeq(hist, LAMBDA h : h.outcome # Null /\ h.outcome # "none")
    IN  /\ Len(acted) > 0
        /\ Len(regs) < MaxBatches
        /\ regs' = regs \o [i \in 1..Len(acted) |-> acted[i].company]
        /\ fresh' = {}
        /\ last' = NoCall
        /\ UNCHANGED <<raw_sources, events, profiles, hist, risk_models, now, req>>

\* main.py DELETE /reset: db.query(Event).delete(); the risk_models table is
\* not touched
reset_database ==
    /\ events' = [i \in SignalIds |-> NoEvent]
    /\ fresh' = {}
    /\ last' = NoCall
    /\ UNCHANGED <<raw_sources, profiles, hist, regs, risk_models, now, req>>

\* main.py /debug/cleanup-invalid-sources
cleanup_invalid_sources ==
    /\ events' = [i \in SignalIds |->
                    IF events[i] # NoEvent
                       /\ (events[i].source = Null \/ events[i].source = ""
                           \/ events[i].source \in INVALID_SOURCES)
                    THEN NoEvent ELSE events[i]]
    /\ fresh' = {}
    /\ last' = NoCall
    /\ UNCHANGED <<raw_sources, profiles, hist, regs, risk_models, now, req>>

(***************************************************************************)
(* The two public operations, each request handled to completion           *)
(***************************************************************************)
\* a request that persists before it looks at the outcome's status
RunAndCommitEager(op, signal_id) ==
    LET out == run_risk_engine(signal_id, DB)
    IN  /\ last' = Response(op, signal_id, out, FALSE, RowOf(risk_models, signal_id),
                             signal_id \in fresh)
        /\ now < MaxTime
        /\ now' = now + 1
        /\ risk_models' = Upsert(risk_models, signal_id, out, now + 1)
        /\ fresh' = fresh \cup {signal_id}
        /\ UNCHANGED <<raw_sources, events, profiles, hist, regs, req>>

\* run_risk_engine as one step: the outcome, and the commit when it succeeds
RunAndCommit(op, signal_id) ==
    LET out == run_risk_engine(signal_id, DB)
    IN  /\ last' = Response(op, signal_id, out, FALSE, RowOf(risk_models, signal_id),
                             signal_id \in fresh)
        /\ IF out.status = "ok"
           THEN /\ now < MaxTime
                /\ now' = now + 1
                /\ risk_models' = Upsert(risk_models, signal_id, out, now + 1)
                /\ fresh' = fresh \cup {signal_id}
           ELSE UNCHANGED <<raw_sources, risk_models, now, fresh>>
        /\ UNCHANGED <<raw_sources, events, profiles, hist, regs, req>>

\* a cached read that stores the USD millions of a row it finds without a
\* calculation_breakdown
get_signal_analysis_converting(signal_id) ==
    IF RowsOf(risk_models, signal_id) # {}
    THEN LET row == RowOf(risk_models, signal_id)
             lm == to_usd_millions(row.loss_min, "INR", "crores")
             lx == to_usd_millions(row.loss_max, "INR", "crores")
             stored == IF row.explanation.calculation_breakdown THEN row
                       ELSE [row EXCEPT !.loss_min = RoundHalfEven(lm[1], lm[2]),
                                        !.loss_max = RoundHalfEven(lx[1], lx[2])]
         IN  /\ last' = Response("get", signal_id, CachedOutcome(row), TRUE, row,
                                 signal_id \in fresh)
             /\ risk_models' = (risk_models \ {row}) \cup {stored}
             /\ UNCHANGED <<raw_sources, events, profiles, hist, regs, now, fresh, req>>
    ELSE RunAndCommit("get", signal_id)

\* main.py GET /signals/{signal_id}/analysis (get_or_compute_analysis)
get_signal_analysis(signal_id) ==
    IF RowsOf(risk_models, signal_id) # {}
    THEN /\ last' = Response("get", signal_id,
                        CachedOutcome(RowOf(risk_models, signal_id)), TRUE,
                        RowOf(risk_models, signal_id), signal_id \in fresh)
         /\ UNCHANGED <<raw_sources, events, profiles, hist, regs, risk_models, now, fresh, req>>
    ELSE RunAndCommit("get", signal_id)

\* main.py POST /risk-engine/recalculate (force_recompute)
recalculate_risk(signal_id) == RunAndCommit("recalc", signal_id)

Next ==
    \/ process_data
    \/ seed_events
    \/ seed_financial_profiles
    \/ seed_historical_events
    \/ seed_regulatory_actions
    \/ reset_database
    \/ cleanup_invalid_sources
    \/ \E s \in SignalIds : get_signal_analysis(s)
    \/ \E s \in SignalIds : recalculate_risk(s)

Spec == Init /\ [][Next]_vars

(***************************************************************************)
(* Properties of the sequential specification                              *)
(***************************************************************************)
\* a step that changed the risk_models table either inserted one row for a
\* signal that had none, or replaced the row of a signal by a row with the
\* same id and signal_id
InsertedOrUpdatedInPlace ==
    \E s \in SignalIds :
        \/ /\ RowsOf(risk_models, s) = {}
           /\ \E r \in risk_models' :
                /\ r.signal_id = s
                /\ risk_models' = risk_models \cup {r}
        \/ \E r \in risk_models : \E q \in risk_models' :
                /\ r.signal_id = s
                /\ q.id = r.id
                /\ q.signal_id = s
                /\ risk_models' = (risk_models \ {r}) \cup {q}

\* C1: after any sequence of get_signal_analysis and recalculate_risk calls
\* the risk_models table holds at most one row per signal_id, and every
\* successful computation either inserts the signal's first row or updates
\* that row in place.
C1_OneRowPerSignal ==
    /\ [](\A r \in risk_models : \A q \in risk_models :
              r.signal_id = q.signal_id => r = q)
    /\ [][risk_models' # risk_models => InsertedOrUpdatedInPlace]_vars

\* a second successful computation has rewritten the one row of its signal
C1_Witness ==
    /\ last.op = "recalc"
    /\ last.status = "ok"
    /\ last.before # NoRow
    /\ Cardinality(RowsOf(risk_models, last.signal_id)) = 1
    /\ RowOf(risk_models, last.signal_id).id = last.before.id
    /\ RowOf(risk_models, last.signal_id).updated_at = 2

\* C2: a request that ends with insufficient_data or with not-found leaves
\* the risk_models table exactly as it was.
C2_NoPersistOnFailure ==
    [][(last' # last /\ last'.status \in {"insufficient_data", "error"})
          => risk_models' = risk_models]_vars

\* a recalculation ended insufficient_data while the signal had a stored row,
\* and the row is as it was
C2_Witness ==
    /\ last.op = "recalc"
    /\ last.status = "insufficient_data"
    /\ last.before # NoRow
    /\ risk_models = {last.before}

\* the company of the Event is null, empty or whitespace
BlankCompany(signal_id) ==
    /\ events[signal_id] # NoEvent
    /\ Strip(OrEmpty(events[signal_id].company)) = ""

\* C3: for an Event whose company is null, empty or whitespace both
\* operations return insufficient_data, whatever the tables hold.
C3_BlankCompanyInsufficient ==
    (last.op \in {"get", "recalc"} /\ BlankCompany(last.signal_id))
        => last.status = "insufficient_data"

\* C4: for a signal_id with no Event both operations return not-found, also
\* after Events were deleted by reset or cleanup.
C4_MissingEventNotFound ==
    (last.op \in {"get", "recalc"} /\ events[last.signal_id] = NoEvent)
        => last.status = "error"

\* C5: every request ends in success, insufficient_data or not-found and
\* never in a fault.
C5_NoFault ==
    last.op \in {"get", "recalc"}
        => last.status \in {"ok", "insufficient_data", "error"}

\* C6: with the tables unchanged since the signal's analysis was computed,
\* every later get_signal_analysis or recalculate_risk returns the values
\* that computation stored, and leaves the row as it was except for
\* updated_at.
C6_RepeatableValues ==
    (last.op \in {"get", "recalc"} /\ last.was_fresh) =>
        /\ last.status = "ok"
        /\ last.before # NoRow
        /\ last.values = ValuesOfRow(last.before)
        /\ [RowOf(risk_models, last.signal_id) EXCEPT !.updated_at = 0]
              = [last.before EXCEPT !.updated_at = 0]

\* a get served from the cache after a recalculation of unchanged data:
\* the row's updated_at is that of the recalculation
C6_Witness ==
    /\ last.op = "get"
    /\ last.cached
    /\ last.was_fresh
    /\ last.before.updated_at = 2
    /\ last.values.loss_min > 0

\* C7: a successful recalculate_risk computes from the tables as they are
\* even when a row is cached, the stored row holds the returned values, and
\* the next get_signal_analysis returns them.
C7_RecomputeOverwrites ==
    (last.op = "recalc" /\ last.status = "ok") =>
        /\ ~ last.cached
        /\ last.values = run_risk_engine(last.signal_id, DB).values
        /\ RowsOf(risk_models, last.signal_id) # {}
        /\ ValuesOfRow(RowOf(risk_models, last.signal_id)) = last.values
        /\ CachedOutcome(RowOf(risk_models, last.signal_id)).values = last.values

\* a recalculation replaced cached values that the data no longer gives
C7_Witness ==
    /\ last.op = "recalc"
    /\ last.status = "ok"
    /\ last.before # NoRow
    /\ ValuesOfRow(last.before) # last.values
    /\ ValuesOfRow(RowOf(risk_models, last.signal_id)) = last.values

\* C10 as stated: every successful computation yields loss_max > loss_min
\* with loss_max / loss_min exactly 1.5.
C10_ExactRatio ==
    (last.status = "ok" /\ ~ last.cached) =>
        /\ last.values.loss_max > last.values.loss_min
        /\ 2 * last.values.loss_max = 3 * last.values.loss_min

\* C10 amended: every successful computation yields loss_max >= loss_min >= 0
\* with 2 * loss_max within 0.0002 of 3 * loss_min, and loss_max > loss_min
\* once loss_min is at least 0.0003.
C10_RatioUpToRounding ==
    (last.status = "ok" /\ ~ last.cached) =>
        /\ last.values.loss_min >= 0
        /\ last.values.loss_max >= last.values.loss_min
        /\ 2 * last.values.loss_max - 3 * last.values.loss_min \in (0 - 2)..2
        /\ last.values.loss_min >= 3 => last.values.loss_max > last.values.loss_min

\* a successful computation whose rounded bounds are not in the ratio 1.5
C10_Witness ==
    /\ last.status = "ok"
    /\ ~ last.cached
    /\ last.values.loss_min >= 3
    /\ 2 * last.values.loss_max # 3 * last.values.loss_min

(***************************************************************************)
(* The two operations statement by statement: requests run on separate     *)
(* threads, every query reads the tables as they are when it runs, and the *)
(* writes of a request reach the table at its db.commit()                  *)
(***************************************************************************)
MaxCommits == 3

InFlight == {w \in Workers : req[w].pc \notin {"idle", "done"}}

\* a request may start while the commits made and the computations under way
\* stay within MaxCommits
MayStart(w) ==
    /\ req[w].pc \in {"idle", "done"}
    /\ now + Cardinality(InFlight) < MaxCommits

Begin(op, signal_id, pc) ==
    [IdleRequest EXCEPT !.pc = pc, !.op = op, !.signal_id = signal_id]

Finish(r, status, out) ==
    [r EXCEPT !.pc = "done", !.status = status, !.out = out,
              !.financial_result = NoResult, !.risk_result = NoResult,
              !.timeline_result = NoResult, !.dirty = {}]

\* main.py 578-631: the cache query of GET /signals/{signal_id}/analysis
BeginGet(w, signal_id) ==
    /\ MayStart(w)
    /\ req' = [req EXCEPT ![w] =
                IF RowsOf(risk_models, signal_id) # {}
                THEN Finish(Begin("get", signal_id, "done"), "ok",
                            CachedOutcome(RowOf(risk_models, signal_id)))
                ELSE Begin("get", signal_id, "event")]
    /\ UNCHANGED <<raw_sources, events, profiles, hist, regs, risk_models, now, last, fresh>>

\* main.py 678-686: POST /risk-engine/recalculate enters run_risk_engine
BeginRecalc(w, signal_id) ==
    /\ MayStart(w)
    /\ req' = [req EXCEPT ![w] = Begin("recalc", signal_id, "event")]
    /\ UNCHANGED <<raw_sources, events, profiles, hist, regs, risk_models, now, last, fresh>>

\* risk_engine.py 385-395: the Event query and the company check
LookupEvent(w) ==
    LET r == req[w]
        event == events[r.signal_id]
    IN  /\ r.pc = "event"
        /\ req' = [req EXCEPT ![w] =
                    IF event = NoEvent
                    THEN Finish(r, "error", Outcome("error", "Signal not found"))
                    ELSE IF Strip(OrEmpty(event.company)) = ""
                    THEN Finish(r, "insufficient_data",
                                Outcome("insufficient_data",
                                    "Company or drug not identified for this signal."))
                    ELSE [r EXCEPT !.pc = "loss"]]
        /\ UNCHANGED <<raw_sources, events, profiles, hist, regs, risk_models, now, last, fresh>>

\* financial_result = financial_est.estimate_loss(signal_id, db)
EstimateLoss(w) ==
    LET r == req[w]
        financial_result == estimate_loss(r.signal_id, DB)
    IN  /\ r.pc = "loss"
        /\ req' = [req EXCEPT ![w] =
                    IF financial_result.status = "fault"
                    THEN Finish(r, "fault", Outcome("fault", financial_result.message))
                    ELSE [r EXCEPT !.pc = "probability",
                                   !.financial_result = financial_result]]
        /\ UNCHANGED <<raw_sources, events, profiles, hist, regs, risk_models, now, last, fresh>>

\* risk_result = regulatory_est.estimate_probability(signal_id, db)
EstimateProbability(w) ==
    /\ req[w].pc = "probability"
    /\ req' = [req EXCEPT ![w] =
                [@ EXCEPT !.pc = "days",
                          !.risk_result = estimate_probability(req[w].signal_id, DB)]]
    /\ UNCHANGED <<raw_sources, events, profiles, hist, regs, risk_models, now, last, fresh>>

\* timeline_result = timeline_pred.predict_days(signal_id, db)
PredictDays(w) ==
    /\ req[w].pc = "days"
    /\ req' = [req EXCEPT ![w] =
                [@ EXCEPT !.pc = "assemble",
                          !.timeline_result = predict_days(req[w].signal_id, DB)]]
    /\ UNCHANGED <<raw_sources, events, profiles, hist, regs, risk_models, now, last, fresh>>

\* risk_engine.py 407-459: the gates, the loss formula, compute_confidence
\* (which queries the tables) and build_explanation
Assemble(w) ==
    LET r == req[w]
        out == assemble(r.signal_id, DB, r.financial_result, r.risk_result,
                        r.timeline_result)
    IN  /\ r.pc = "assemble"
        /\ req' = [req EXCEPT ![w] =
                    IF out.status = "ok"
                    THEN [r EXCEPT !.pc = "lookup", !.out = out,
                                   !.financial_result = NoResult,
                                   !.risk_result = NoResult,
                                   !.timeline_result = NoResult]
                    ELSE Finish(r, out.status, out)]
        /\ UNCHANGED <<raw_sources, events, profiles, hist, regs, risk_models, now, last, fresh>>

Columns ==
    {"probability", "loss_min", "loss_max", "expected_days_min", "expected_days_max",
     "confidence_score", "explanation"}

\* the value the request assigns to a column
Assigned(out, c) == IF c = "explanation" THEN out.explanation ELSE out.values[c]

\* risk_engine.py 463-471: the Session marks an assigned column as changed when
\* the value differs from the one it loaded; updated_at always differs
DirtyColumns(loaded, out) == {c \in Columns : Assigned(out, c) # loaded[c]}

\* risk_engine.py 462-471: the RiskModel query and, when a row is found, the
\* assignments to it
LookupRow(w) ==
    LET r == req[w]
        loaded == RowOf(risk_models, r.signal_id)
    IN  /\ r.pc = "lookup"
        /\ req' = [req EXCEPT ![w] =
                    [r EXCEPT !.pc = "commit",
                              !.loaded_id = loaded.id,
                              !.dirty = IF loaded = NoRow THEN {}
                                        ELSE DirtyColumns(loaded, r.out)]]
        /\ UNCHANGED <<raw_sources, events, profiles, hist, regs, risk_models, now, last, fresh>>

\* UPDATE risk_models SET <changed columns>, updated_at WHERE id = <loaded id>
UpdateChangedColumns(current, dirty, out, t) ==
    [c \in DOMAIN current |->
        IF c \in dirty THEN Assigned(out, c)
        ELSE IF c = "updated_at" THEN t
        ELSE current[c]]

\* risk_engine.py 473-484: db.add for a new row, and db.commit().  An INSERT
\* for a signal_id that has a row by now violates the unique constraint:
\* db.commit() raises IntegrityError and the endpoint answers 500
Commit(w) ==
    LET r == req[w]
        current == {q \in risk_models : q.id = r.loaded_id}
    IN  /\ r.pc = "commit"
        /\ IF r.loaded_id = 0 /\ RowsOf(risk_models, r.signal_id) # {}
           THEN /\ req' = [req EXCEPT ![w] = Finish(r, "fault", r.out)]
                /\ UNCHANGED <<raw_sources, risk_models, now>>
           ELSE /\ now' = now + 1
                /\ risk_models' =
                     IF r.loaded_id = 0
                     THEN risk_models \cup {NewRow(risk_models, r.signal_id, r.out, now + 1)}
                     ELSE (risk_models \ current)
                          \cup {UpdateChangedColumns(q, r.dirty, r.out, now + 1) :
                                    q \in current}
                /\ req' = [req EXCEPT ![w] =
                            [Finish(r, "ok", r.out) EXCEPT !.committed = TRUE]]
        /\ UNCHANGED <<raw_sources, events, profiles, hist, regs, last, fresh>>

\* The corpus tables grow while requests run; deletions and /process are
\* covered by Spec.
NextConc ==
    \/ seed_events
    \/ seed_financial_profiles
    \/ seed_historical_events
    \/ seed_regulatory_actions
    \/ \E w \in Workers : \E s \in SignalIds : BeginGet(w, s)
    \/ \E w \in Workers : \E s \in SignalIds : BeginRecalc(w, s)
    \/ \E w \in Workers : LookupEvent(w)
    \/ \E w \in Workers : EstimateLoss(w)
    \/ \E w \in Workers : EstimateProbability(w)
    \/ \E w \in Workers : PredictDays(w)
    \/ \E w \in Workers : Assemble(w)
    \/ \E w \in Workers : LookupRow(w)
    \/ \E w \in Workers : Commit(w)

SpecConc == Init /\ [][NextConc]_vars

\* both requests computed for the same signal and committed
BothCommitted ==
    /\ \A w \in Workers : req[w].pc = "done" /\ req[w].committed
    /\ req["A"].signal_id = req["B"].signal_id

\* the stored row holds every field of the output out
RowHolds(row, out) ==
    /\ ValuesOfRow(row) = out.values
    /\ row.explanation = out.explanation

\* C8: when computations for one signal run concurrently, the row persisted
\* in the end is the complete output of one of them; its fields never combine
\* what two computations wrote.
C8_RowOfOneComputation ==
    BothCommitted =>
        \E w \in Workers : RowHolds(RowOf(risk_models, req[w].signal_id), req[w].out)

\* both requests looked the row up before either committed, and found none
BothFirst ==
    /\ \A w \in Workers :
          /\ req[w].pc = "done"
          /\ req[w].out.status = "ok"
          /\ req[w].loaded_id = 0
    /\ req["A"].signal_id = req["B"].signal_id

\* C9: two requests that compute the same not-yet-computed signal
\* concurrently both end with success, and one row exists afterwards;
\* neither fails on the unique signal_id constraint.
C9_BothFirstSucceed ==
    BothFirst =>
        /\ \A w \in Workers : req[w].status = "ok"
        /\ Cardinality(RowsOf(risk_models, req["A"].signal_id)) = 1

(***************************************************************************)
(* Calls of single functions.  The tables of a call are built from counts  *)
(* of rows, so that the thresholds of the estimators (5 inspections, 8     *)
(* regulatory actions, 10 news events, 5 and 10 historical events) are     *)
(* crossed.  last holds the call: its arguments and what it returned.      *)
(***************************************************************************)
MaxAdverse == 2        \* adverse HistoricalEvents of the company
MaxInspections == 6    \* inspection HistoricalEvents of the company
MaxOther == 8          \* its HistoricalEvents of another type
MaxActions == 9        \* its RegulatoryActions
MaxMedia == 11         \* its Events from a news source
MaxFallback == 11      \* HistoricalEvents of another company
MaxDated == 3          \* HistoricalEvents of the company in a timeline call
MaxTimeline == 21      \* dated HistoricalEvents of another company

Rows(n, row) == [k \in 1..n |-> row]

\* HistoricalEvent rows as seed_historical_data.py generates them
AdverseRow ==
    [company |-> "Acme", event_type |-> "adverse", severity_score |-> 33,
     outcome |-> "none", days_to_action |-> NoNum]

InspectionRow ==
    [company |-> "acme", event_type |-> "inspection", severity_score |-> NoNum,
     outcome |-> "warning_letter", days_to_action |-> 120]

OtherRow ==
    [company |-> "ACME", event_type |-> "recall", severity_score |-> 80,
     outcome |-> "recall", days_to_action |-> 60]

\* a row of another company whose event_type is that of the signal
FallbackRow ==
    [company |-> "Zed", event_type |-> "Risk", severity_score |-> NoNum,
     outcome |-> "none", days_to_action |-> 60]

\* an Event from a news source to which update_existing_events gave a company
NewsEvent(k) ==
    [company |-> "Acme", drug_name |-> Null, event_type |-> "Risk",
     source |-> IF k % 2 = 0 THEN "Serper" ELSE "News"]

\* the signal's Event with id 1 and m news Events of the company after it
EventsOfCall(event, m) == [k \in 1..(m + 1) |-> IF k = 1 THEN event ELSE NewsEvent(k)]

HistOfCall(a, i, o, z) ==
    Rows(z, FallbackRow) \o Rows(a, AdverseRow) \o Rows(i, InspectionRow)
        \o Rows(o, OtherRow)

Corpus(event, profile_rows, hist_rows, r, m) ==
    [events |-> EventsOfCall(event, m), profiles |-> profile_rows,
     hist |-> hist_rows, regs |-> Rows(r, "ACME")]

AcmeEvent ==
    [company |-> "ACME", drug_name |-> "Metformin", event_type |-> "Risk",
     source |-> "OpenFDA"]

\* RegulatoryRiskEstimator().estimate_probability(signal_id, db)
call_estimate_probability ==
    /\ req.op = "estimate_probability"
    /\ last.op = "none"
    /\ last' = [op |-> req.op, args |-> req.args,
                result |-> estimate_probability(1,
                              Corpus(AcmeEvent, <<>>,
                                     HistOfCall(req.args.adverse, req.args.inspections,
                                                req.args.other, 0),
                                     req.args.actions, req.args.media))]
    /\ UNCHANGED <<raw_sources, events, profiles, hist, regs, risk_models, now, fresh, req>>

\* Events of a call: complete, padded company and no drug, no company, blank
EventsUnderTest ==
    {AcmeEvent,
     [company |-> " Acme ", drug_name |-> Null, event_type |-> "Operational",
      source |-> "Demo"],
     [company |-> Null, drug_name |-> Null, event_type |-> "Risk", source |-> "Serper"],
     [company |-> "  ", drug_name |-> "Metformin", event_type |-> "Risk", source |-> Null]}

\* financial_profiles of a call: none, a large and a small USD company, a
\* company reporting in INR crores, and a row without currency
ProfilesUnderTest ==
    {<<>>,
     <<[company |-> "Acme", annual_revenue |-> 1000, drug_revenue_share |-> 6,
        currency |-> "USD", unit_scale |-> "millions", market |-> "US"]>>,
     <<[company |-> "Acme", annual_revenue |-> 500, drug_revenue_share |-> 10,
        currency |-> "usd", unit_scale |-> "Millions", market |-> "US"]>>,
     <<[company |-> "ACME", annual_revenue |-> 830, drug_revenue_share |-> 6,
        currency |-> "INR", unit_scale |-> "crores", market |-> "India"]>>,
     <<[company |-> "Acme", annual_revenue |-> 2000, drug_revenue_share |-> 10,
        currency |-> "USD", unit_scale |-> "millions", market |-> "INDIA"]>>,
     <<[company |-> "Acme", annual_revenue |-> 1000, drug_revenue_share |-> 6,
        currency |-> Null, unit_scale |-> Null, market |-> Null]>>}

CorpusOfArgs(args) ==
    Corpus(args.event, args.profiles,
           HistOfCall(args.adverse, args.inspections, args.other, args.fallback),
           args.actions, args.media)

\* a RiskModel row of signal 1 written by an earlier run
PriorRow ==
    NewRow({}, 1, [Outcome("ok", "") EXCEPT
                     !.values = [probability |-> 0, loss_min |-> 0, loss_max |-> 0,
                                 expected_days_min |-> 30, expected_days_max |-> 90,
                                 confidence_score |-> 30]], 0)

\* run_risk_engine(1, db) on a risk_models table that is empty or holds the
\* row of an earlier run: the three estimator results, the result returned
\* and the table afterwards
call_run_risk_engine ==
    LET db == CorpusOfArgs(req.args)
        out == run_risk_engine(1, db)
        before == IF req.args.prior THEN {PriorRow} ELSE {}
    IN  /\ req.op = "run_risk_engine"
        /\ last.op = "none"
        /\ last' = [op |-> req.op, args |-> req.args,
                    financial_result |-> estimate_loss(1, db),
                    risk_result |-> estimate_probability(1, db),
                    timeline_result |-> predict_days(1, db),
                    result |-> out,
                    rows |-> IF out.status = "ok" THEN Upsert(before, 1, out, 1)
                             ELSE before]
        /\ UNCHANGED <<raw_sources, events, profiles, hist, regs, risk_models, now, fresh, req>>

\* the calls made: the function and its arguments
ProbabilityCalls ==
    \E a \in 0..MaxAdverse, i \in 0..MaxInspections, o \in 0..MaxOther,
       r \in 0..MaxActions, m \in 0..MaxMedia :
        req = [op |-> "estimate_probability",
               args |-> [adverse |-> a, inspections |-> i, other |-> o,
                         actions |-> r, media |-> m]]

EngineCalls ==
    \E e \in EventsUnderTest, p \in ProfilesUnderTest,
       a \in 0..MaxAdverse, i \in 0..MaxAdverse, o \in 0..MaxAdverse,
       z \in {0, 1, MaxFallback},
       r \in {0, 1, MaxActions}, m \in {0, MaxMedia}, prior \in BOOLEAN :
        req = [op |-> "run_risk_engine",
               args |-> [event |-> e, profiles |-> p, adverse |-> a,
                         inspections |-> i, other |-> o, fallback |-> z,
                         actions |-> r, media |-> m, prior |-> prior]]

\* ConfidenceScorer().compute_confidence(signal_id, db, financial_result, ...)
call_compute_confidence ==
    /\ req.op = "compute_confidence"
    /\ last.op = "none"
    /\ last' = [op |-> req.op, args |-> req.args,
                result |-> compute_confidence(1,
                              Corpus(req.args.event, <<>>,
                                     HistOfCall(0, req.args.inspections,
                                                req.args.other, 0), 0, 0),
                              req.args.financial_ok)]
    /\ UNCHANGED <<raw_sources, events, profiles, hist, regs, risk_models, now, fresh, req>>

ConfidenceCalls ==
    \E e \in EventsUnderTest, f \in BOOLEAN,
       i \in 0..MaxInspections, o \in 0..MaxOther :
        req = [op |-> "compute_confidence",
               args |-> [event |-> e, financial_ok |-> f, inspections |-> i,
                         other |-> o]]

\* lines 414-423 of run_risk_engine on a financial and a probability result
call_loss_formula ==
    /\ req.op = "loss_formula"
    /\ last.op = "none"
    /\ LET loss_base == loss_base_of(req.args.financial_result, req.args.risk_result)
       IN  last' = [op |-> req.op, args |-> req.args,
                    loss_min |-> loss_min_of(loss_base),
                    loss_max |-> loss_max_of(loss_base),
                    loss_display_min |-> display_of(loss_min_of(loss_base), FALSE),
                    loss_display_max |-> display_of(loss_max_of(loss_base), FALSE)]
    /\ UNCHANGED <<raw_sources, events, profiles, hist, regs, risk_models, now, fresh, req>>

\* revenue in USD millions, share in percent, impact as a fraction,
\* probability in tenths of a percent
LossCalls ==
    \E revenue \in {1, 100, 830, 1000, 2000}, share \in {1, 6, 10, 100},
       impact \in {Rat(3, 100), Rat(5, 100), Rat(8, 100), Rat(99, 2000), Rat(15, 100)},
       probability \in {0, 1, 50, 277, 400, 800, 1000} :
        req = [op |-> "loss_formula",
               args |-> [financial_result |-> [revenue_usd_m |-> revenue * 10000,
                                               drug_revenue_share |-> share,
                                               impact_pct |-> impact],
                         risk_result |-> [probability |-> probability]]]

\* validate_large_pharma_loss(revenue_usd_m, loss_min_usd_m)
call_validate_large_pharma_loss ==
    /\ req.op = "validate_large_pharma_loss"
    /\ last.op = "none"
    /\ last' = [op |-> req.op, args |-> req.args,
                result |-> validate_large_pharma_loss(req.args.revenue_usd_m,
                                                      req.args.loss_min_usd_m)]
    /\ UNCHANGED <<raw_sources, events, profiles, hist, regs, risk_models, now, fresh, req>>

\* amounts around the two thresholds, in ten-thousandths of a USD million
ValidationCalls ==
    \E revenue \in {0, 1, 9999999, 10000000, 10000001, 50000000},
       loss \in {0, 1, 9999, 10000, 10001, 500000} :
        req = [op |-> "validate_large_pharma_loss",
               args |-> [revenue_usd_m |-> revenue, loss_min_usd_m |-> loss]]

\* usd_millions_to_inr_crores(to_usd_millions(amount, "INR", "crores")) in a
\* process started with INR_PER_USD = rate
call_round_trip ==
    /\ req.op = "round_trip"
    /\ last.op = "none"
    /\ LET usd_m == to_usd_millions_at(req.args.rate, req.args.amount, "INR", "crores")
       IN  last' = [op |-> req.op, args |-> req.args, usd_m |-> usd_m,
                    result |-> usd_millions_to_inr_crores_at(req.args.rate, usd_m)]
    /\ UNCHANGED <<raw_sources, events, profiles, hist, regs, risk_models, now, fresh, req>>

\* the rates a deployment may set: 83.0, 83.5, 75, 100, 0.01 and 1000
RatesUnderTest == {<<83, 1>>, <<167, 2>>, <<75, 1>>, <<100, 1>>, <<1, 100>>, <<1000, 1>>}

RoundTripCalls ==
    \E amount \in {1, 7, 83, 830, 1000, 48000, 100000}, rate \in RatesUnderTest :
        req = [op |-> "round_trip", args |-> [amount |-> amount, rate |-> rate]]

\* to_usd_millions(value, currency, unit_scale) with the default rates
call_to_usd_millions ==
    /\ req.op = "to_usd_millions"
    /\ last.op = "none"
    /\ last' = [op |-> req.op, args |-> req.args,
                result |-> to_usd_millions(req.args.value, req.args.currency,
                                           req.args.unit_scale)]
    /\ UNCHANGED <<raw_sources, events, profiles, hist, regs, risk_models, now, fresh, req>>

\* None, zero, a negative amount and positive amounts
AmountsUnderTest == {NoNum, 0, 0 - 5, 1, 830, 1000, 48000}

CurrenciesUnderTest ==
    {"USD", "usd", "Usd", "INR", "inr", "Inr", "EUR", "eur", "Eur", "GBP", "gbp",
     "", Null}

ScalesUnderTest ==
    {"crores", "Crores", "CRORES", "millions", "Millions", "MILLIONS",
     "billions", "Billions", "BILLIONS", "thousands", "Thousands", "THOUSANDS",
     "Lakhs", "", Null}

ConversionCalls ==
    \E v \in AmountsUnderTest, c \in CurrenciesUnderTest, u \in ScalesUnderTest :
        req = [op |-> "to_usd_millions",
               args |-> [value |-> v, currency |-> c, unit_scale |-> u]]

\* a HistoricalEvent of the company with the given days_to_action (NoNum for
\* NULL), and rows of another company with the event type of the signal
DatedRow(days) == [InspectionRow EXCEPT !.days_to_action = days]
UndatedFallbackRow == [FallbackRow EXCEPT !.days_to_action = NoNum]

HistOfTimeline(args) ==
    Rows(args.undated, UndatedFallbackRow) \o Rows(args.fallback, FallbackRow)
        \o [k \in 1..Len(args.own) |-> DatedRow(args.own[k])]

\* TimelinePredictor().predict_days(signal_id, db)
call_predict_days ==
    /\ req.op = "predict_days"
    /\ last.op = "none"
    /\ last' = [op |-> req.op, args |-> req.args,
                result |-> predict_days(1, Corpus(req.args.event, <<>>,
                                                  HistOfTimeline(req.args), 0, 0))]
    /\ UNCHANGED <<raw_sources, events, profiles, hist, regs, risk_models, now, fresh, req>>

\* days_to_action of the company's rows: NULL and three values in every
\* order, and lists whose mean - std is 1, 5, 0 and below zero
DaysUnderTest ==
    UNION {[1..k -> {NoNum, 60, 90, 120}] : k \in 0..MaxDated}
        \cup {<<1, 21>>, <<5, 45>>, <<0, 0>>, <<0, 0, 0, 20>>, <<45>>}

TimelineCalls ==
    \E e \in EventsUnderTest, own \in DaysUnderTest,
       z \in {0, 1, MaxTimeline}, u \in 0..1 :
        req = [op |-> "predict_days",
               args |-> [event |-> e, own |-> own, fallback |-> z, undated |-> u]]

\* format_loss_usd(loss_usd_m) and format_loss_with_inr(loss_usd_m) on an
\* amount given in ten-thousandths of a USD million, NoNum for None
call_format_loss ==
    /\ req.op = "format_loss"
    /\ last.op = "none"
    /\ LET loss_usd_m == IF req.args.amount = NoNum THEN NoAmount
                         ELSE Rat(req.args.amount, 10000)
       IN  last' = [op |-> req.op, args |-> req.args,
                    result |-> format_loss_usd(loss_usd_m),
                    with_inr |-> format_loss_with_inr(loss_usd_m)]
    /\ UNCHANGED <<raw_sources, events, profiles, hist, regs, risk_models, now, fresh, req>>

\* None, zero and amounts on both sides of 0.001, 1 and 1000 USD millions
DisplayAmounts ==
    {NoNum, 0, 1, 4, 6, 9, 10, 14, 15, 25, 4996, 9994, 9995, 9996, 10000, 14000,
     15000, 16000, 24000, 25000, 35000, 9994000, 9995000, 9999000, 10000000,
     10490000, 10510000, 12500000, 999990000}

FormatCalls ==
    \E amount \in DisplayAmounts : req = [op |-> "format_loss", args |-> [amount |-> amount]]

\* a HistoricalEvent row of the company with the given severity_score
SeverityRow(severity_score) ==
    [company |-> "Acme", event_type |-> "recall", severity_score |-> severity_score,
     outcome |-> "none", days_to_action |-> 60]

\* lines 399 and 414-423 of run_risk_engine: estimate_loss on a profile and a
\* history of the company, and the loss range of its result for a probability
call_estimate_and_loss ==
    /\ req.op = "estimate_and_loss"
    /\ last.op = "none"
    /\ LET db == Corpus(AcmeEvent, <<req.args.profile>>,
                        [k \in 1..Len(req.args.severity) |->
                            SeverityRow(req.args.severity[k])], 0, 0)
           financial_result == estimate_loss(1, db)
           risk_result == [probability |-> req.args.probability]
           loss_base == IF financial_result.status = "ok"
                        THEN loss_base_of(financial_result, risk_result)
                        ELSE <<0, 1>>
       IN  last' = [op |-> req.op, args |-> req.args,
                    financial_result |-> financial_result,
                    loss_min |-> IF financial_result.status = "ok"
                                 THEN loss_min_of(loss_base) ELSE NoNum,
                    loss_max |-> IF financial_result.status = "ok"
                                 THEN loss_max_of(loss_base) ELSE NoNum]
    /\ UNCHANGED <<raw_sources, events, profiles, hist, regs, risk_models, now, fresh, req>>

\* annual_revenue from negative to 2000 USD millions, drug_revenue_share
\* 0 %, 50 % and 100 %
RevenuesUnderTest == {0 - 500, 0, 1, 1000, 2000}
SharesUnderTest == {0, 50, 100}

\* severity_score of the history: none, or up to MaxSeverities values of
\* NULL, 0, 0.5 and 1
MaxSeverities == 2
SeveritiesUnderTest == UNION {[1..k -> {NoNum, 0, 50, 100}] : k \in 0..MaxSeverities}

EstimateAndLossCalls ==
    \E revenue \in RevenuesUnderTest, share \in SharesUnderTest,
       severity \in SeveritiesUnderTest, probability \in {0, 1, 500, 1000} :
        req = [op |-> "estimate_and_loss",
               args |-> [profile |-> [company |-> "Acme", annual_revenue |-> revenue,
                                      drug_revenue_share |-> share,
                                      currency |-> "USD", unit_scale |-> "millions",
                                      market |-> "US"],
                         severity |-> severity, probability |-> probability]]

\* a RiskModel row of signal 1 as some version of the engine left it
StoredRow(loss_min, explanation) ==
    [id |-> 1, signal_id |-> 1, probability |-> 320, loss_min |-> loss_min,
     loss_max |-> (loss_min \div 2) * 3, expected_days_min |-> 30,
     expected_days_max |-> 90, confidence_score |-> 55,
     explanation |-> explanation, updated_at |-> 0]

\* explanation_json: missing, of a version that wrote no calculation_breakdown
\* (for an India and for a US profile), and as run_risk_engine writes it
ExplanationsUnderTest ==
    {NoExplanation,
     [NoExplanation EXCEPT !.valid = TRUE, !.market = "India"],
     [NoExplanation EXCEPT !.valid = TRUE, !.market = "US"],
     [NoExplanation EXCEPT !.valid = TRUE, !.market = "India",
                           !.calculation_breakdown = TRUE],
     [NoExplanation EXCEPT !.valid = TRUE, !.market = "US",
                           !.calculation_breakdown = TRUE]}

\* stored loss_min values, in ten-thousandths: 0, 0.0004, 0.05, 1, 1500,
\* 9999 and 10000
StoredLossesUnderTest == {0, 4, 500, 10000, 15000000, 99990000, 100000000}

\* GET /signals/1/analysis on a table that is empty or holds one row
call_get_signal_analysis ==
    /\ req.op = "get_signal_analysis"
    /\ last.op = "none"
    /\ get_signal_analysis(1)

CachedReadCalls ==
    \/ req = [op |-> "get_signal_analysis", args |-> [rows |-> {}]]
    \/ \E loss_min \in StoredLossesUnderTest, explanation \in ExplanationsUnderTest :
          req = [op |-> "get_signal_analysis",
                 args |-> [rows |-> {StoredRow(loss_min, explanation)}]]

InitUnit ==
    /\ raw_sources = <<>>
    /\ events = [i \in SignalIds |-> NoEvent]
    /\ profiles = <<>>
    /\ hist = <<>>
    /\ regs = <<>>
    /\ now = 0
    /\ last = NoCall
    /\ fresh = {}
    /\ \/ ProbabilityCalls
       \/ EngineCalls
       \/ ConfidenceCalls
       \/ LossCalls
       \/ ValidationCalls
       \/ RoundTripCalls
       \/ ConversionCalls
       \/ TimelineCalls
       \/ FormatCalls
       \/ CachedReadCalls
       \/ EstimateAndLossCalls
    /\ risk_models = IF req.op = "get_signal_analysis" THEN req.args.rows ELSE {}

NextUnit ==
    \/ call_estimate_probability
    \/ call_run_risk_engine
    \/ call_compute_confidence
    \/ call_loss_formula
    \/ call_validate_large_pharma_loss
    \/ call_round_trip
    \/ call_to_usd_millions
    \/ call_predict_days
    \/ call_format_loss
    \/ call_get_signal_analysis
    \/ call_estimate_and_loss

SpecUnit == InitUnit /\ [][NextUnit]_vars

\* C11: for a signal with a company estimate_probability succeeds with a
\* probability in [0, 100] for every combination of counts of historical
\* events, news events and regulatory actions, with probability 0 when all
\* counts are zero; every RiskModel row written has its probability in
\* [0, 100].
C11_ProbabilityInRange ==
    /\ last.op = "estimate_probability" =>
          /\ last.result.status = "ok"
          /\ last.result.probability \in 0..1000
          /\ (last.args = [adverse |-> 0, inspections |-> 0, other |-> 0,
                           actions |-> 0, media |-> 0])
                => last.result.probability = 0
    /\ last.op = "run_risk_engine" =>
          \A row \in last.rows : row.probability \in 0..1000

\* the adverse ratio, the news events and the regulatory actions are at
\* their caps: probability 80.0
C11_Witness ==
    /\ last.op = "estimate_probability"
    /\ last.args.adverse > 0
    /\ last.args.inspections = 0
    /\ last.args.other = 0
    /\ last.args.actions = MaxActions
    /\ last.args.media = MaxMedia
    /\ last.result.probability = 800

\* the band of a score in hundredths: High from 0.7, Medium from 0.4
BandOf(score) ==
    IF score >= 70 THEN "High" ELSE IF score >= 40 THEN "Medium" ELSE "Low"

\* the sums of one increment of each kind, in hundredths
ConfidenceSums ==
    {c + d + f + h + t : c \in {0, 15}, d \in {0, 15}, f \in {0, 20},
                         h \in {0, 10, 20, 30}, t \in {0, 10, 20}}

\* C12: the confidence score of every result and every row written is a sum
\* of the completeness, financial, sample-size and source-trust increments
\* and lies in [0, 1]; compute_confidence always returns a score and a band;
\* the band of the fresh result and the band of the cached read are both
\* High iff score >= 0.7, Medium iff 0.4 <= score < 0.7, Low otherwise.
C12_ConfidenceAndBand ==
    /\ last.op = "compute_confidence" =>
          /\ last.result.score \in ConfidenceSums
          /\ last.result.score \in 0..100
          /\ last.result.band = BandOf(last.result.score)
    /\ (last.op = "run_risk_engine" /\ last.result.status = "ok") =>
          /\ last.result.values.confidence_score \in 0..100
          /\ last.result.confidence_band = BandOf(last.result.values.confidence_score)
          /\ \A row \in last.rows :
                /\ row.confidence_score = last.result.values.confidence_score
                /\ CachedOutcome(row).confidence_band = BandOf(row.confidence_score)

\* a score of exactly 0.7 is reported High by the computation and by the
\* cached read of the row it wrote
C12_Witness ==
    /\ last.op = "run_risk_engine"
    /\ last.result.status = "ok"
    /\ last.result.values.confidence_score = 70
    /\ last.result.confidence_band = "High"
    /\ \E row \in last.rows : CachedOutcome(row).confidence_band = "High"

\* L = canonical revenue x drug revenue share x impact x probability / 100,
\* as a rational of USD millions
ExpectedLoss(financial_result, risk_result) ==
    RatMul(RatMul(Rat(financial_result.revenue_usd_m * financial_result.drug_revenue_share,
                      10000 * 100),
                  financial_result.impact_pct),
           Rat(risk_result.probability, 10 * 100))

\* C13: on success loss_min = round(0.8 L, 4) and loss_max = round(1.2 L, 4)
\* with L = revenue_usd_m x drug_revenue_share x impact_pct x probability / 100;
\* revenue 1000, share 0.1, impact 0.05 and probability 40 give 1.6 and 2.4.
C13_LossRange ==
    /\ last.op = "loss_formula" =>
          LET L == ExpectedLoss(last.args.financial_result, last.args.risk_result)
          IN  /\ last.loss_min = Round4(RatMul(Rat(4, 5), L))
              /\ last.loss_max = Round4(RatMul(Rat(6, 5), L))
              /\ (/\ last.args.financial_result.revenue_usd_m = 1000 * 10000
                  /\ last.args.financial_result.drug_revenue_share = 10
                  /\ last.args.financial_result.impact_pct = Rat(5, 100)
                  /\ last.args.risk_result.probability = 400)
                 => (last.loss_min = 16000 /\ last.loss_max = 24000)
    /\ (last.op = "run_risk_engine" /\ last.result.status = "ok") =>
          LET L == ExpectedLoss(last.financial_result, last.risk_result)
          IN  /\ last.result.values.loss_min = Round4(RatMul(Rat(4, 5), L))
              /\ last.result.values.loss_max = Round4(RatMul(Rat(6, 5), L))
              /\ \A row \in last.rows :
                    /\ row.loss_min = last.result.values.loss_min
                    /\ row.loss_max = last.result.values.loss_max

\* the worked example: 1000 USD M, share 0.1, impact 0.05, probability 40
C13_Witness ==
    /\ last.op = "loss_formula"
    /\ last.args.financial_result.revenue_usd_m = 1000 * 10000
    /\ last.args.financial_result.drug_revenue_share = 10
    /\ last.args.financial_result.impact_pct = Rat(5, 100)
    /\ last.args.risk_result.probability = 400
    /\ last.loss_min = 16000
    /\ last.loss_max = 24000

\* a large company with a loss below one USD million
LargeWithSmallLoss(revenue_usd_m, loss_min_usd_m) ==
    revenue_usd_m >= 1000 * 10000 /\ loss_min_usd_m < 1 * 10000

\* C14: a successful result has validation_passed = False, with a non-empty
\* message, exactly when the canonical revenue is >= 1000 USD M and loss_min
\* is below 1 USD M; the RiskModel row is inserted or updated all the same
\* and the status is still the success status.
C14_ValidationFlag ==
    /\ last.op = "validate_large_pharma_loss" =>
          /\ last.result[1] = ~ LargeWithSmallLoss(last.args.revenue_usd_m,
                                                   last.args.loss_min_usd_m)
          /\ last.result[1] <=> (last.result[2] = "")
    /\ (last.op = "run_risk_engine" /\ last.result.status = "ok") =>
          LET flagged == LargeWithSmallLoss(last.financial_result.revenue_usd_m,
                                            last.result.values.loss_min)
          IN  /\ last.result.validation_passed = (IF flagged THEN "false" ELSE "true")
              /\ flagged => last.result.validation_message \notin {Null, "", "absent"}
              /\ ~ flagged => last.result.validation_message = Null
              /\ Cardinality(last.rows) = 1
              /\ \A row \in last.rows :
                    /\ row.signal_id = 1
                    /\ row.updated_at = 1
                    /\ ValuesOfRow(row) = last.result.values
                    /\ last.args.prior => row.id = PriorRow.id

\* a flagged result whose values replaced those of the row of an earlier run
C14_Witness ==
    /\ last.op = "run_risk_engine"
    /\ last.result.status = "ok"
    /\ last.result.validation_passed = "false"
    /\ last.result.validation_message # Null
    /\ last.args.prior
    /\ \E row \in last.rows : row.id = PriorRow.id /\ row.loss_min = last.result.values.loss_min
    /\ last.result.values.loss_min > 0

\* the rational x is within 0.01 % of the positive integer a
WithinTolerance(x, a) ==
    LET diff == IF x[1] >= a * x[2] THEN x[1] - a * x[2] ELSE a * x[2] - x[1]
    IN  diff <= (a * x[2]) \div 10000

\* C15: for every positive amount a of INR crores and every configured
\* INR-per-USD rate, usd_millions_to_inr_crores(to_usd_millions(a, "INR",
\* "crores")) is a within 0.01 %.
C15_RoundTrip ==
    last.op = "round_trip" =>
        /\ last.usd_m = RatMul(<<last.args.amount * 10, 1>>,
                               Rat(last.args.rate[2], last.args.rate[1]))
        /\ WithinTolerance(last.result, last.args.amount)

\* 48000 crores at 83.5 INR per USD: about 5748.5 USD millions and back
C15_Witness ==
    /\ last.op = "round_trip"
    /\ last.args.amount = 48000
    /\ last.args.rate = <<167, 2>>
    /\ last.usd_m = <<960000, 167>>
    /\ last.result = <<48000, 1>>

\* the spellings of a currency code or a unit scale
Spellings(word) ==
    CASE word = "USD" -> {"USD", "usd", "Usd"}
      [] word = "INR" -> {"INR", "inr", "Inr"}
      [] word = "EUR" -> {"EUR", "eur", "Eur"}
      [] word = "crores" -> {"crores", "Crores", "CRORES"}
      [] word = "millions" -> {"millions", "Millions", "MILLIONS"}
      [] word = "billions" -> {"billions", "Billions", "BILLIONS"}
      [] word = "thousands" -> {"thousands", "Thousands", "THOUSANDS"}

\* the USD amount of v at a unit scale; <<>> where the scale is not one of
\* billions, millions, thousands
UsdOfScale(v, scale) ==
    IF scale \in Spellings("billions") THEN <<v * 1000, 1>>
    ELSE IF scale \in Spellings("millions") THEN <<v, 1>>
    ELSE IF scale \in Spellings("thousands") THEN Rat(v, 1000)
    ELSE <<>>

\* the amount the conversion rules give for a positive v and a currency and
\* a scale that are both present
ExpectedUsdMillions(v, currency, scale) ==
    IF currency \in Spellings("INR") /\ scale \in Spellings("crores")
        THEN RatMul(<<v, 1>>, Rat(10000000, 83 * 1000000))
    ELSE IF currency \in Spellings("USD") /\ UsdOfScale(v, scale) # <<>>
        THEN UsdOfScale(v, scale)
    ELSE IF currency \in Spellings("EUR") /\ UsdOfScale(v, scale) # <<>>
        THEN RatMul(UsdOfScale(v, scale), Rat(108, 100))
    ELSE <<v, 1>>

\* C16: to_usd_millions is 0 for a missing or non-positive value and is
\* never negative; otherwise INR crores are multiplied by 10,000,000 /
\* INR_per_USD / 1,000,000, USD billions, millions and thousands give
\* v * 1000, v and v / 1000, EUR gives the USD amount of the same scale
\* times the EUR rate, every other combination gives v; the currency and
\* the scale are matched case-insensitively.
C16_ConversionTable ==
    last.op = "to_usd_millions" =>
        /\ last.result[1] >= 0 /\ last.result[2] > 0
        /\ (last.args.value = NoNum \/ last.args.value <= 0) => last.result[1] = 0
        /\ (/\ last.args.value > 0
            /\ Truthy(last.args.currency)
            /\ Truthy(last.args.unit_scale))
           => last.result = ExpectedUsdMillions(last.args.value, last.args.currency,
                                                last.args.unit_scale)

\* 1000 "eur" "Billions" is 1,080,000 USD millions
C16_Witness ==
    /\ last.op = "to_usd_millions"
    /\ last.args = [value |-> 1000, currency |-> "eur", unit_scale |-> "Billions"]
    /\ last.result = <<1080000, 1>>

\* The weighted sum of C17 from the counts a call was set up with, as the
\* pair (numerator, denominator) of 10 x probability:
\* 1000 (0.30 A/T + 0.20 min(M/10, 1) + 0.20 min(I/5, 1) + 0.30 min(H/8, 1))
\* = 5 (120 A + T (8 min(M, 10) + 16 min(I, 5) + 15 min(H, 8))) / (2 T),
\* with T = 1 and A = 0 for a company without history.
WeightedSum(args) ==
    LET total == args.adverse + args.inspections + args.other
        T == Max(total, 1)
    IN  <<5 * (120 * args.adverse
               + T * (8 * Min(args.media, 10) + 16 * Min(args.inspections, 5)
                      + 15 * Min(args.actions, 8))),
          2 * T>>

\* the calls whose probability the formula is about
ProbabilityComputed ==
    \/ last.op = "estimate_probability"
    \/ last.op = "run_risk_engine" /\ last.risk_result.status = "ok"

\* the probability of an estimator result, NoNum when it has none
ProbabilityOf(risk_result) ==
    IF risk_result.status = "ok" THEN risk_result.probability ELSE NoNum

ProbabilityOfCall ==
    IF last.op = "estimate_probability" THEN ProbabilityOf(last.result)
    ELSE ProbabilityOf(last.risk_result)

\* C17 as stated: the probability is the weighted sum itself.
C17_ExactFormula ==
    ProbabilityComputed =>
        ProbabilityOfCall * WeightedSum(last.args)[2] = WeightedSum(last.args)[1]

\* C17: probability is 100 (0.30 a + 0.20 m + 0.20 i + 0.30 h) to one decimal
\* place (at most 0.05 away), with a the share of adverse/safety events in
\* the company's historical events (0 without history), m = min(news-sourced
\* Events / 10, 1), i = min(inspections / 5, 1), h = min(regulatory actions
\* / 8, 1), the company matched case-insensitively.
C17_FormulaToOneDecimal ==
    ProbabilityComputed =>
        LET w == WeightedSum(last.args)
            d == ProbabilityOfCall * w[2] - w[1]
        IN  2 * d <= w[2] /\ 0 - 2 * d <= w[2]

\* one regulatory action and nothing else: the sum is 3.75, reported to one
\* decimal place
C17_Witness ==
    /\ last.op = "estimate_probability"
    /\ last.args = [adverse |-> 0, inspections |-> 0, other |-> 0,
                    actions |-> 1, media |-> 0]
    /\ last.result.probability \in {37, 38}
    /\ WeightedSum(last.args) = <<75, 2>>

\* the estimator results of an engine call that report insufficient data,
\* in the order financial, regulatory, timeline
FailedEstimators ==
    SelectSeq(<<last.financial_result, last.risk_result, last.timeline_result>>,
              LAMBDA r : r.status = "insufficient_data")

\* an engine call for a signal with a non-empty company whose estimators ran
EstimatorsRan ==
    /\ last.op = "run_risk_engine"
    /\ Strip(OrEmpty(last.args.event.company)) # ""
    /\ last.financial_result.status # "fault"

\* C18: when estimators report insufficient data for a signal with a
\* non-empty company, run_risk_engine returns the status and message of the
\* first of them in the order financial, regulatory, timeline, no value of
\* another estimator reaches the caller, and the store is left as it was.
C18_FirstFailurePropagates ==
    (EstimatorsRan /\ Len(FailedEstimators) >= 1) =>
        /\ last.result.status = "insufficient_data"
        /\ last.result.message = FailedEstimators[1].message
        /\ last.result.values = NoValues
        /\ last.result.confidence_band = Null
        /\ last.result.explanation = NoExplanation
        /\ last.rows = (IF last.args.prior THEN {PriorRow} ELSE {})

\* the financial and the timeline estimator both fail, with different
\* messages, while the regulatory estimator has a probability above zero and
\* an earlier row is stored
C18_Witness ==
    /\ EstimatorsRan
    /\ Len(FailedEstimators) = 2
    /\ FailedEstimators[1].message # FailedEstimators[2].message
    /\ last.risk_result.status = "ok"
    /\ last.risk_result.probability > 0
    /\ last.args.prior
    /\ last.result.message = last.financial_result.message

\* the breakdown of a successful engine call
BreakdownOfCall == last.result.explanation.breakdown

\* the distance of two integers
Distance(x, y) == IF x >= y THEN x - y ELSE y - x

\* C19: the base loss of the breakdown's formula is the loss_base of the
\* stored range: stored loss_min = 0.8 x base and loss_max = 1.2 x base, up
\* to the two decimals the base is printed with (0.005 on the base, 0.00005
\* on each bound).
C19_BreakdownBaseIsLossBase ==
    (last.op = "run_risk_engine" /\ last.result.status = "ok") =>
        \A row \in last.rows :
            /\ Distance(10 * row.loss_min, 8 * 100 * BreakdownOfCall.base_loss) <= 410
            /\ Distance(10 * row.loss_max, 12 * 100 * BreakdownOfCall.base_loss) <= 610

\* the number of HistoricalEvent rows of the signal's company in an engine
\* call, and of the rows of another company with the signal's event_type
OwnHistory == last.args.adverse + last.args.inspections + last.args.other
TypeHistory ==
    IF Lower(last.args.event.event_type) = Lower(FallbackRow.event_type)
    THEN last.args.fallback ELSE 0

\* average severity x 0.15 over the given numbers of rows scored 0.33 and
\* 0.80, or the default of the event type when no row has a score
ImpactOfRows(scored33, scored80) ==
    IF scored33 + scored80 = 0
    THEN (IF Lower(last.args.event.event_type) = "risk" THEN Rat(8, 100) ELSE Rat(3, 100))
    ELSE RatMul(Rat(33 * scored33 + 80 * scored80, 100 * (scored33 + scored80)),
                Rat(15, 100))

\* an estimate_loss call for a signal with a company that reached the profile
\* lookup, and one whose profile was found and read
LossEstimated ==
    /\ last.op = "run_risk_engine"
    /\ Strip(OrEmpty(last.args.event.company)) # ""
    /\ last.financial_result.status # "fault"
ProfileRead == LossEstimated /\ last.args.profiles # <<>>

\* C20: estimate_loss takes the HistoricalEvent rows of the signal's company
\* (matched case-insensitively); only when there are none does it take up to
\* 10 rows of any company with the signal's event_type, and then it succeeds;
\* it reports insufficient data for missing history only when that fallback
\* is empty too; without a financial profile (and without a demo profile) it
\* reports insufficient data whatever the history.
C20_HistorySelection ==
    /\ (LossEstimated /\ last.args.profiles = <<>>) =>
          last.financial_result = Insufficient("No financial profile")
    /\ (ProfileRead /\ OwnHistory > 0) =>
          /\ last.financial_result.status = "ok"
          /\ last.financial_result.similar_count = OwnHistory
          /\ last.financial_result.impact_pct =
                ImpactOfRows(last.args.adverse, last.args.other)
    /\ (ProfileRead /\ OwnHistory = 0 /\ TypeHistory > 0) =>
          /\ last.financial_result.status = "ok"
          /\ last.financial_result.similar_count = Min(TypeHistory, 10)
          /\ last.financial_result.impact_pct = ImpactOfRows(0, 0)
    /\ (ProfileRead /\ OwnHistory = 0 /\ TypeHistory = 0) =>
          last.financial_result =
              Insufficient("No historical events for impact estimation")

\* no history of the company and more than 10 rows of the event type: the
\* estimate succeeds on 10 of them
C20_Witness ==
    /\ ProfileRead
    /\ OwnHistory = 0
    /\ TypeHistory > 10
    /\ last.financial_result.status = "ok"
    /\ last.financial_result.similar_count = 10

\* the days_to_action values a timeline call may use: the non-null ones of
\* the company's rows if the signal has a company and there are any,
\* otherwise those of at most 20 rows with the signal's event type
OwnDated == SelectSeq(last.args.own, LAMBDA d : d # NoNum)
TypeDated ==
    IF Lower(last.args.event.event_type) = Lower(FallbackRow.event_type)
    THEN Rows(Min(last.args.fallback, 20), FallbackRow.days_to_action)
    ELSE <<>>
SelectedDays ==
    IF Strip(OrEmpty(last.args.event.company)) # "" /\ Len(OwnDated) > 0
    THEN OwnDated ELSE TypeDated

\* C21: predict_days uses only rows with a days_to_action: those of the
\* signal's company if there are any, otherwise at most 20 rows with the
\* signal's event_type; it reports insufficient data exactly when both sets
\* are empty, also when the company has rows without days_to_action.
C21_TimelineSelection ==
    last.op = "predict_days" =>
        IF Len(SelectedDays) = 0
        THEN last.result = Insufficient("No historical timeline data")
        ELSE /\ last.result.status = "ok"
             /\ last.result.sample = Len(SelectedDays)
             /\ last.result.expected_days_min * Len(SelectedDays) <= SumSeq(SelectedDays)
                   \/ last.result.expected_days_min = 1
             /\ last.result.expected_days_max * Len(SelectedDays) >= SumSeq(SelectedDays)

\* the company has rows, all without days_to_action, another company has
\* more than 20 dated rows of the event type: 20 of them are used
C21_Witness ==
    /\ last.op = "predict_days"
    /\ Len(last.args.own) > 0
    /\ Len(OwnDated) = 0
    /\ last.args.fallback > 20
    /\ last.args.undated > 0
    /\ last.result.status = "ok"
    /\ last.result.sample = 20

\* the company has rows, none with a days_to_action, and no row has the
\* event type: insufficient data
NullDaysInsufficient ==
    /\ last.op = "predict_days"
    /\ Len(last.args.own) > 0
    /\ Len(OwnDated) = 0
    /\ last.result.status = "insufficient_data"

\* For the selected values d_1..d_n with sum s: n^2 x variance is
\* n x sum(d^2) - s^2, so t <= mean - std iff s - t n >= 0 and
\* (s - t n)^2 >= n^2 variance, and t <= mean + std iff t n - s <= 0 or
\* (t n - s)^2 <= n^2 variance.
SpreadOfDays(days) ==
    Len(days) * SumSeq([k \in 1..Len(days) |-> days[k] * days[k]])
        - SumSeq(days) * SumSeq(days)

AtMostMeanMinusStd(t, days) ==
    LET x == SumSeq(days) - t * Len(days)
    IN  x >= 0 /\ x * x >= SpreadOfDays(days)

AtMostMeanPlusStd(t, days) ==
    LET x == t * Len(days) - SumSeq(days)
    IN  x <= 0 \/ x * x <= SpreadOfDays(days)

\* C22: expected_days_min = max(trunc(mean - std), 1) and expected_days_max =
\* trunc(mean + std), mean and population standard deviation being those of
\* the selected days_to_action; [60, 90, 120] gives the window [65, 114].
C22_Window ==
    (last.op = "predict_days" /\ last.result.status = "ok") =>
        /\ last.result.expected_days_min >= 1
        /\ \/ last.result.expected_days_min = 1
           \/ AtMostMeanMinusStd(last.result.expected_days_min, SelectedDays)
        /\ ~ AtMostMeanMinusStd(last.result.expected_days_min + 1, SelectedDays)
        /\ AtMostMeanPlusStd(last.result.expected_days_max, SelectedDays)
        /\ ~ AtMostMeanPlusStd(last.result.expected_days_max + 1, SelectedDays)
        /\ SelectedDays = <<60, 90, 120>> =>
              /\ last.result.expected_days_min = 65
              /\ last.result.expected_days_max = 114

\* the worked example
C22_Witness ==
    /\ last.op = "predict_days"
    /\ last.args.own = <<60, 90, 120>>
    /\ last.result.status = "ok"
    /\ last.result.expected_days_min = 65
    /\ last.result.expected_days_max = 114

\* the unit format_loss_usd is to choose for a non-negative amount in
\* ten-thousandths of a USD million, and the amount in that unit's digits
\* as a rational
UnitOfAmount(amount) ==
    IF amount >= 1000 * 10000 THEN "B"
    ELSE IF amount >= 10000 THEN "M"
    ELSE IF amount >= 10 THEN "K"
    ELSE "M.2f"

DigitsOfAmount(amount) ==
    CASE UnitOfAmount(amount) = "B" -> <<amount, 1000000>>
      [] UnitOfAmount(amount) = "M" -> <<amount, 10000>>
      [] UnitOfAmount(amount) = "K" -> <<amount, 10>>
      [] UnitOfAmount(amount) = "M.2f" -> <<amount, 100>>

\* the unit rule of C23: billions with one decimal from 1000, whole millions
\* from 1, whole thousands from 0.001, millions with two decimals below; the
\* digits are the nearest to the amount
UnitRule ==
    (last.op = "format_loss" /\ last.args.amount >= 0) =>
        /\ last.result.unit = UnitOfAmount(last.args.amount)
        /\ LET x == DigitsOfAmount(last.args.amount)
           IN  2 * Distance(last.result.digits * x[2], x[1]) <= x[2]

\* the displayed range of a loss formula call is the given string twice
DisplayedTwice(unit, digits) ==
    /\ last.loss_display_min = UsdOnly([unit |-> unit, digits |-> digits])
    /\ last.loss_display_max = UsdOnly([unit |-> unit, digits |-> digits])

\* C23: format_loss_usd chooses the unit from the amount (billions with one
\* decimal from 1000, whole millions from 1, whole thousands from 0.001,
\* millions with two decimals below), so the range of loss_base = 2.0 is
\* displayed "$2M"-"$2M" and the range of loss_base = 0.0005 "$1K"-"$1K".
C23_DisplayUnits ==
    /\ UnitRule
    /\ last.op = "loss_formula" =>
          LET L == ExpectedLoss(last.args.financial_result, last.args.risk_result)
          IN  /\ L = <<2, 1>> => DisplayedTwice("M", 2)
              /\ L = <<1, 2000>> => DisplayedTwice("K", 1)

\* what the code displays for loss_base = 0.0005: "$0.00M" twice
SmallRangeShownAsZero ==
    /\ last.op = "loss_formula"
    /\ ExpectedLoss(last.args.financial_result, last.args.risk_result) = <<1, 2000>>
    /\ last.loss_min = 4
    /\ last.loss_max = 6
    /\ DisplayedTwice("M.2f", 0)

\* the scenario keys
ScenarioKeys == {"scenario_a", "scenario_b", "scenario_c"}

\* the share of the range a scenario takes, in percent
ShareOfScenario(k) == IF k = "scenario_a" THEN 100 ELSE IF k = "scenario_b" THEN 70 ELSE 50

\* a market that reads India whatever its case
IsIndia(market) == market \in {"India", "INDIA", "india"}

\* the profile the engine call read has an India market
IndiaProfile == /\ Len(req.args.profiles) > 0
                /\ IsIndia(req.args.profiles[1].market)

\* the INR-crore equivalent of an amount in ten-thousandths of a USD million
\* is at least 0.01 crore
AtLeastOnePaisaCrore(loss) == INR_PER_USD * loss >= 1000

\* the scenarios of a result sc are the shares of the range lm..lx to the
\* nearest ten-thousandth, in order
ScenariosOfRange(sc, lm, lx) ==
    /\ \A k \in ScenarioKeys :
          /\ Distance(100 * sc[k].loss_min, ShareOfScenario(k) * lm) <= 50
          /\ Distance(100 * sc[k].loss_max, ShareOfScenario(k) * lx) <= 50
    /\ sc.scenario_a.loss_min = lm /\ sc.scenario_a.loss_max = lx
    /\ sc.scenario_c.loss_min <= sc.scenario_b.loss_min
    /\ sc.scenario_b.loss_min <= sc.scenario_a.loss_min
    /\ sc.scenario_c.loss_max <= sc.scenario_b.loss_max
    /\ sc.scenario_b.loss_max <= sc.scenario_a.loss_max

\* the displays of a result carry the scenario amounts
DisplaysOfScenarios(o) ==
    \A k \in ScenarioKeys :
        /\ o.scenario_displays[k].loss_min = o.scenarios[k].loss_min
        /\ o.scenario_displays[k].loss_max = o.scenarios[k].loss_max

\* every scenario display carries an INR suffix exactly when india
SuffixIff(o, india) ==
    \A k \in ScenarioKeys :
        /\ (o.scenario_displays[k].display_min.inr.unit # "") <=> india
        /\ (o.scenario_displays[k].display_max.inr.unit # "") <=> india

\* every scenario display carries an INR suffix exactly when india and the
\* amount is worth 0.01 crore or more
SuffixIffWorth(o, india) ==
    \A k \in ScenarioKeys :
        /\ (o.scenario_displays[k].display_min.inr.unit # "")
              <=> (india /\ AtLeastOnePaisaCrore(o.scenarios[k].loss_min))
        /\ (o.scenario_displays[k].display_max.inr.unit # "")
              <=> (india /\ AtLeastOnePaisaCrore(o.scenarios[k].loss_max))

\* the fresh result of an engine call and the cached reads of the row written
ResultsOfCall == {last.result} \cup {CachedOutcome(row) : row \in last.rows}

EngineSucceeded == last.op = "run_risk_engine" /\ last.result.status = "ok"

\* C24 as stated: in the fresh and in the cached result the scenarios are
\* 100 %, 70 % and 50 % of the stored loss_min and loss_max to four decimals,
\* in order, and every scenario is displayed with the INR-crore suffix iff
\* the profile's market is India in any case.
C24_ScenariosAndSuffix ==
    EngineSucceeded =>
        \A o \in ResultsOfCall :
            /\ ScenariosOfRange(o.scenarios, o.values.loss_min, o.values.loss_max)
            /\ DisplaysOfScenarios(o)
            /\ SuffixIff(o, IndiaProfile)

\* C24 amended: in the fresh and in the cached result the scenarios are
\* 100 %, 70 % and 50 % of the stored loss_min and loss_max to four decimals,
\* in order; a scenario amount is displayed with the INR-crore suffix iff the
\* profile's market is India in any case and the amount is worth at least
\* 0.01 crore, and in USD only otherwise.
C24_ScenariosAndWorthySuffix ==
    EngineSucceeded =>
        /\ Cardinality(ResultsOfCall) >= 1
        /\ \A row \in last.rows :
              /\ row.loss_min = last.result.values.loss_min
              /\ row.loss_max = last.result.values.loss_max
        /\ \A o \in ResultsOfCall :
              /\ ScenariosOfRange(o.scenarios, o.values.loss_min, o.values.loss_max)
              /\ DisplaysOfScenarios(o)
              /\ SuffixIffWorth(o, IndiaProfile)

\* an India-market profile written in capitals whose three scenarios, fresh
\* and cached, all carry the suffix and whose 70 % scenario is strictly
\* between the other two
C24_Witness ==
    /\ EngineSucceeded
    /\ req.args.profiles[1].market = "INDIA"
    /\ \A o \in ResultsOfCall :
          /\ SuffixIff(o, TRUE)
          /\ o.scenarios.scenario_c.loss_min < o.scenarios.scenario_b.loss_min
          /\ o.scenarios.scenario_b.loss_min < o.scenarios.scenario_a.loss_min
    /\ \E row \in last.rows : CachedOutcome(row).scenarios = last.result.scenarios

\* an India-market result with a scenario too small for a suffix
IndiaWithoutSuffix ==
    /\ EngineSucceeded
    /\ IndiaProfile
    /\ ~ SuffixIff(last.result, TRUE)

\* main.py 591, 605: the cached read takes a row as a legacy INR-crore row
TreatedAsLegacy(row) ==
    /\ ~ (row.explanation.valid /\ row.explanation.calculation_breakdown)
    /\ IsIndia(IF row.explanation.valid /\ Truthy(row.explanation.market)
               THEN row.explanation.market ELSE "India")
    /\ row.loss_min < 10000 * 10000

\* the display keys of a result
DisplayKeys(o) ==
    [loss_display_min |-> o.loss_display_min, loss_display_max |-> o.loss_display_max,
     scenarios |-> o.scenarios, scenario_displays |-> o.scenario_displays]

\* C25: the cached read of a row written by run_risk_engine returns the
\* loss_display_min, loss_display_max, scenarios and scenario displays that
\* the computation which wrote the row returned, and does not treat the row
\* as a legacy INR-crore row.
C25_CachedDisplaysAsComputed ==
    EngineSucceeded =>
        /\ Cardinality(last.rows) = 1
        /\ \A row \in last.rows :
              /\ DisplayKeys(CachedOutcome(row)) = DisplayKeys(last.result)
              /\ ~ TreatedAsLegacy(row)

\* an India-market computation with a loss below 10000 overwrote a row that
\* was read as a legacy row, and the cached read shows the INR suffix the
\* computation showed
C25_Witness ==
    /\ EngineSucceeded
    /\ req.args.prior
    /\ TreatedAsLegacy(PriorRow)
    /\ IndiaProfile
    /\ last.result.values.loss_min > 0
    /\ last.result.loss_display_min.inr.unit # ""
    /\ \A row \in last.rows :
          /\ row.loss_min < 10000 * 10000
          /\ CachedOutcome(row).loss_display_min = last.result.loss_display_min
          /\ CachedOutcome(row).loss_display_min # legacy_display_of(row.loss_min)

\* the display of an amount of INR crores, kept in ten-thousandths
DisplayOfCrores(loss) ==
    format_loss_with_inr(RatMul(Rat(loss, 10000), Rat(10, INR_PER_USD)))

\* C26: a GET /signals/{id}/analysis that finds a row of the signal answers
\* from it and writes nothing: the risk_models table is the same afterwards,
\* the numbers returned are the stored ones, and for a legacy row (no
\* calculation_breakdown, India market, loss_min < 10000) only the display
\* strings returned carry the conversion from INR crores to USD millions.
C26_CachedReadWritesNothing ==
    [][(req.op = "get_signal_analysis" /\ RowsOf(risk_models, 1) # {}) =>
          LET row == RowOf(risk_models, 1)
          IN  /\ risk_models' = risk_models
              /\ now' = now
              /\ last'.cached
              /\ last'.status = "ok"
              /\ last'.values = ValuesOfRow(row)
              /\ TreatedAsLegacy(row) =>
                    /\ last'.loss_display_min = DisplayOfCrores(row.loss_min)
                    /\ last'.loss_display_max = DisplayOfCrores(row.loss_max)]_vars

\* a legacy row of 1500 crores was read: the answer shows $181M (1,500 Cr)
\* and the row still holds 1500
C26_Witness ==
    /\ last.op = "get"
    /\ last.cached
    /\ TreatedAsLegacy(last.before)
    /\ last.before.loss_min = 15000000
    /\ last.values.loss_min = 15000000
    /\ last.loss_display_min = [usd |-> [unit |-> "M", digits |-> 181],
                                inr |-> [unit |-> "Cr", digits |-> 1500]]
    /\ risk_models = {last.before}

\* C27: every RiskModel row's signal_id is the id of an existing Event; the
\* operations that delete Events leave no RiskModel row behind.
C27_RowsReferToEvents ==
    \A row \in risk_models : events[row.signal_id] # NoEvent

\* C28: every successful timeline result and every RiskModel row written
\* has 1 <= expected_days_min <= expected_days_max, whatever days_to_action
\* values are stored, values of 0 included.
C28_DaysOrdered ==
    /\ (last.op = "predict_days" /\ last.result.status = "ok") =>
          /\ 1 <= last.result.expected_days_min
          /\ last.result.expected_days_min <= last.result.expected_days_max
    /\ EngineSucceeded =>
          \A row \in last.rows :
              /\ 1 <= row.expected_days_min
              /\ row.expected_days_min <= row.expected_days_max

\* the window of a history whose days_to_action are all 0 is 1..0
ZeroDaysWindow ==
    /\ last.op = "predict_days"
    /\ last.args.own = <<0, 0>>
    /\ last.result.status = "ok"
    /\ last.result.expected_days_min = 1
    /\ last.result.expected_days_max = 0

\* C29: every success result and every RiskModel row written has
\* 0 <= loss_min <= loss_max, for every profile with drug_revenue_share in
\* [0, 1] (whatever its revenue) and every history with severity scores in
\* [0, 1].
C29_LossOrdered ==
    /\ (last.op = "estimate_and_loss" /\ last.financial_result.status = "ok") =>
          /\ last.financial_result.revenue_usd_m >= 0
          /\ 0 <= last.loss_min
          /\ last.loss_min <= last.loss_max
    /\ last.op = "loss_formula" =>
          /\ 0 <= last.loss_min
          /\ last.loss_min <= last.loss_max
    /\ EngineSucceeded =>
          /\ 0 <= last.result.values.loss_min
          /\ last.result.values.loss_min <= last.result.values.loss_max
          /\ \A row \in last.rows :
                0 <= row.loss_min /\ row.loss_min <= row.loss_max

\* the largest case: share 1.0, every severity 1.0, probability 100 on a
\* revenue of 2000 gives 240 .. 360
C29_Witness ==
    /\ last.op = "estimate_and_loss"
    /\ last.args.profile.annual_revenue = 2000
    /\ last.args.profile.drug_revenue_share = 100
    /\ last.args.severity = <<100, 100>>
    /\ last.args.probability = 1000
    /\ last.loss_min = 240 * 10000
    /\ last.loss_max = 360 * 10000

\* a negative annual_revenue counts as no revenue: the range is 0 .. 0
NegativeRevenueNoLoss ==
    /\ last.op = "estimate_and_loss"
    /\ last.args.profile.annual_revenue < 0
    /\ last.args.probability = 1000
    /\ last.financial_result.status = "ok"
    /\ last.loss_min = 0
    /\ last.loss_max = 0

(***************************************************************************)
(* POST /process, statement by statement.  Each request runs in its own    *)
(* thread with its own Session: it reads the unprocessed RawSource rows,   *)
(* builds its Events and marks in the Session, and writes them with one    *)
(* commit.                                                                 *)
(***************************************************************************)
MaxRaw == 2         \* RawSource rows ingested

\* the Events two requests can store for MaxRaw rows
ProcessEventIds == 1..(2 * MaxRaw)

\* ingestion.py: a RawSource row; url stands for the distinct URL of the item
RawSourceRow(source, url) == [source |-> source, url |-> url, processed |-> FALSE]

\* main.py 181-203
is_valid_source(source) ==
    /\ source # Null
    /\ Strip(source) # ""
    /\ Strip(source) \notin INVALID_SOURCES

\* the Event /process builds for a RawSource
EventOfRaw(raw, source) ==
    [company |-> Null, drug_name |-> Null, event_type |-> "Operational",
     source |-> source, article_url |-> raw.url]

\* a request that is not running; unprocessed: the rows its query returned,
\* added: the Events in its Session, marked: the rows its Session marked,
\* rejected: the rows it skipped for their source
IdleProcess ==
    [pc |-> "idle", unprocessed |-> <<>>, added |-> <<>>, marked |-> {}, rejected |-> {}]

InitProcess ==
    /\ events = [i \in ProcessEventIds |-> NoEvent]
    /\ profiles = <<>>
    /\ hist = <<>>
    /\ regs = <<>>
    /\ risk_models = {}
    /\ now = 0
    /\ last = NoCall
    /\ fresh = {}
    /\ req = [w \in Workers |-> IdleProcess]
    /\ raw_sources = <<>>

\* services/ingestion.py: a new item is stored unprocessed
ingest ==
    \E source \in {"Serper", "OpenFDA", "Demo"} :
        /\ Len(raw_sources) < MaxRaw
        /\ raw_sources' = Append(raw_sources, RawSourceRow(source, Len(raw_sources) + 1))
        /\ UNCHANGED <<events, profiles, hist, regs, risk_models, now, last, fresh, req>>

\* main.py 108: the query of the unprocessed rows; a request that finds
\* none returns
process_query(w) ==
    LET unprocessed == SelectSeq([k \in 1..Len(raw_sources) |-> k],
                                 LAMBDA k : ~ raw_sources[k].processed)
    IN  /\ req[w].pc = "idle"
        /\ Len(unprocessed) > 0
        /\ req' = [req EXCEPT ![w] = [pc |-> "loop", unprocessed |-> unprocessed,
                                      added |-> <<>>, marked |-> {}, rejected |-> {}]]
        /\ UNCHANGED <<events, profiles, hist, regs, risk_models, now, last, fresh>>
        /\ UNCHANGED <<raw_sources>>

\* main.py 118-166: one pass of the loop.  process_raw_source raises for the
\* row (the row is left as it is), or returns a source of its own that is a
\* placeholder, or returns none and the row's source is taken.
process_item(w) ==
    \E llm \in {"raises", "Unknown", ""} :
        LET k == Head(req[w].unprocessed)
            raw == raw_sources[k]
            source == Strip(IF llm = "" THEN raw.source ELSE llm)
            rest == Tail(req[w].unprocessed)
            pc == IF rest = <<>> THEN "commit" ELSE "loop"
        IN  /\ req[w].pc = "loop"
            /\ req' = [req EXCEPT ![w] =
                          IF llm = "raises"
                          THEN [@ EXCEPT !.pc = pc, !.unprocessed = rest]
                          ELSE IF ~ is_valid_source(source)
                          THEN [@ EXCEPT !.pc = pc, !.unprocessed = rest,
                                         !.marked = @ \cup {k},
                                         !.rejected = @ \cup {k}]
                          ELSE [@ EXCEPT !.pc = pc, !.unprocessed = rest,
                                         !.added = Append(@, EventOfRaw(raw, source)),
                                         !.marked = @ \cup {k}]]
            /\ UNCHANGED <<events, profiles, hist, regs, risk_models, now, last, fresh>>
            /\ UNCHANGED <<raw_sources>>

\* the events table with the Events of a Session inserted after the last id
InsertEvents(table, added) ==
    LET base == NextId({i \in DOMAIN table : table[i] # NoEvent}) - 1
    IN  [i \in DOMAIN table |->
            IF i > base /\ i <= base + Len(added) THEN added[i - base] ELSE table[i]]

\* main.py 169: db.commit() writes the Events added and the rows marked
process_commit(w) ==
    /\ req[w].pc = "commit"
    /\ events' = InsertEvents(events, req[w].added)
    /\ raw_sources' = [k \in 1..Len(raw_sources) |->
                          IF k \in req[w].marked
                          THEN [raw_sources[k] EXCEPT !.processed = TRUE]
                          ELSE raw_sources[k]]
    /\ req' = [req EXCEPT ![w] = IdleProcess]
    /\ UNCHANGED <<profiles, hist, regs, risk_models, now, last, fresh>>

NextProcess ==
    \/ ingest
    \/ \E w \in Workers : process_query(w)
    \/ \E w \in Workers : process_item(w)
    \/ \E w \in Workers : process_commit(w)

SpecProcess == InitProcess /\ [][NextProcess]_vars

\* the Events stored for a RawSource row
EventsOfRaw(k) ==
    {i \in DOMAIN events : events[i] # NoEvent /\ events[i].article_url = raw_sources[k].url}

\* the step stores an Event for the RawSource row
EventStoredFor(k) ==
    \E i \in DOMAIN events :
        /\ events[i] = NoEvent
        /\ events'[i] # NoEvent
        /\ events'[i].article_url = raw_sources[k].url

\* the step is the commit of a request that marked the row and either stores
\* its Event or had rejected it for its source and stores none
MarkedWithEventOrRejected(k) ==
    \E w \in Workers :
        /\ req[w].pc = "commit"
        /\ req'[w].pc = "idle"
        /\ k \in req[w].marked
        /\ IF k \in req[w].rejected THEN ~ EventStoredFor(k) ELSE EventStoredFor(k)

\* C30: under every interleaving of /process requests a RawSource row gives
\* rise to at most one Event, and a row becomes processed only in the commit
\* that stores its Event, or after it was rejected for an empty or placeholder
\* source, in which case no Event is created for it.
C30_OneEventPerRawSource ==
    /\ [](\A k \in 1..Len(raw_sources) : Cardinality(EventsOfRaw(k)) <= 1)
    /\ [][\A k \in 1..Len(raw_sources) :
            (raw_sources'[k].processed /\ ~ raw_sources[k].processed)
                => MarkedWithEventOrRejected(k)]_vars

\* a row becomes processed only in the commit that stores its Event or
\* after it was rejected
ProcessedWithEventOrRejected ==
    [][\A k \in 1..Len(raw_sources) :
            (raw_sources'[k].processed /\ ~ raw_sources[k].processed)
                => MarkedWithEventOrRejected(k)]_vars

\* two Events stored for one RawSource row
TwoEventsOfOneRaw ==
    \E k \in 1..Len(raw_sources) : Cardinality(EventsOfRaw(k)) = 2

====
